---------------------------- MODULE Spec2Model ----------------------------
(***************************************************************************)
(* A model of the transaction types of bitcoins-rs (crate `bitcoin`):      *)
(* LegacyTx and WitnessTx, their constructors, their wire encoding, and    *)
(* the legacy and BIP143 sighash preimage writers.                         *)
(*                                                                         *)
(* Bytes are integers 0..255 and every serialized value is a sequence of   *)
(* bytes.  A u32 given to a constructor is an integer below 2^31 (TLC's    *)
(* integers are 32 bit); a u32 read from bytes is the 32-bit integer with  *)
(* the same bits, which is written back as the same bytes.  A u64 is its   *)
(* four 16-bit limbs, least significant first.  Indices are 0-based as in  *)
(* the source; sequences are 1-based, so vin[index] of the source is       *)
(* vin[index + 1] here.  The module also models the wire codec of          *)
(* transactions, the classification of scripts, PSBT key/value schemas,    *)
(* the validation of the PSBT global map, the PSBT roles and extractor,    *)
(* the path derivation and the backend of BIP32 keys (crate `bip32`) and   *)
(* the APDU commands of the Ledger app (crate `ledger-btc`); each has a    *)
(* specification of its own over the same variables.                       *)
(***************************************************************************)
EXTENDS Integers, Sequences, FiniteSets, TLC

VARIABLES
    pc,        \* "start" | "ready" | "done": position of the calling program
    tx,        \* the transaction value the caller holds
    args,      \* the sighash arguments of the last call
    op,        \* the last operation called
    ret,       \* its outcome: "none" | "Ok" | "Panic" | a TxError name
    copy_tx,   \* the local copy_tx of write_sighash_preimage when it returned
    writer,    \* the bytes written to the writer of the last call
    digest,    \* the digest the last call returned, <<>> when it returned none
    wire,      \* the bytes given to the last deserialize
    parsed,    \* what the last deserialize returned
    script,    \* the script the caller classifies
    stype,     \* the ScriptType the last classification returned
    schema,    \* a KVTypeSchema: key_type -> the predicate registered for it
    log,       \* the (key_type, predicate) pairs inserted so far, in call order
    kv,        \* the (key, value) pair the last predicate was called on
    trace,     \* the leaf predicates the last call evaluated, in order
    global,    \* a PSBTGlobal map: key bytes -> value bytes
    psbt,      \* the PSBT the extractor is called on
    extracted, \* the transaction the extractor returned
    output_maps, \* the output maps of the PSBT
    created,   \* the unsigned-tx bytes the Creator stored
    xkey,      \* the extended key the caller holds
    path,      \* the derivation path of the last call
    children,  \* the child derivations the last call performed, in order
    buffer,    \* the buffer the last packetize call cut into chunks
    packets    \* the APDU commands it returned

\* the variables of the codec, of script classification, of the PSBT schema
\* and of the PSBT roles
codecVars == <<wire, parsed>>
scriptVars == <<script, stype>>
schemaVars == <<schema, log, kv, trace>>
psbtVars == <<global, psbt, extracted>>
roleVars == <<output_maps, created>>
keyVars == <<xkey, path, children>>
apduVars == <<buffer, packets>>
restVars == <<roleVars, keyVars, apduVars>>

\* the variables the sighash calls leave alone
otherVars == <<codecVars, scriptVars, schemaVars, psbtVars, restVars>>

vars == <<pc, tx, args, op, ret, copy_tx, writer, digest, otherVars>>

---------------------------------------------------------------------------
(* Bounds of the model. *)

\* the longest vin given to a constructor
MaxIn == 2
\* the longest vout given to a constructor
MaxOut == 2
\* the longest witnesses vector given to WitnessTransaction::new
MaxWit == 2

---------------------------------------------------------------------------
(* enum Sighash, #[repr(u8)] *)

SIGHASH_ALL == 1
SIGHASH_NONE == 2
SIGHASH_SINGLE == 3
SIGHASH_ALL_ACP == 129
SIGHASH_NONE_ACP == 130
SIGHASH_SINGLE_ACP == 131

Sighash ==
    {SIGHASH_ALL, SIGHASH_NONE, SIGHASH_SINGLE,
     SIGHASH_ALL_ACP, SIGHASH_NONE_ACP, SIGHASH_SINGLE_ACP}

\* `sighash_flag as u8 & 0x80 == 0x80`
IsACP(flag) == (flag \div 128) % 2 = 1

---------------------------------------------------------------------------
(* Primitives: fixed-width integers, compact-size prefix, hashing. *)

RECURSIVE Flatten(_)
\* the concatenation of a sequence of byte strings
Flatten(ss) == IF ss = <<>> THEN <<>> ELSE Head(ss) \o Flatten(Tail(ss))

\* Ser::write_u32_le
write_u32_le(v) ==
    <<v % 256, (v \div 256) % 256, (v \div 65536) % 256, (v \div 16777216) % 256>>

\* Ser::write_u64_le, on the four 16-bit limbs of the value
write_u64_le(v) ==
    Flatten([i \in 1..4 |-> <<v[i] % 256, (v[i] \div 256) % 256>>])

\* Bitcoin compact size.  Lengths of 2^32 and more (the 0xff form) do not
\* occur: a length here is below 2^31.
write_compact_int(n) ==
    IF n <= 252 THEN <<n>>
    ELSE IF n <= 65535 THEN <<253, n % 256, (n \div 256) % 256>>
    ELSE <<254>> \o write_u32_le(n)

\* a length-prefixed byte vector (Script, ScriptSig, ScriptPubkey)
SerScript(s) == write_compact_int(Len(s)) \o s

\* A stand-in for the compression function of SHA-256: it mixes two values
\* below 2^23 into one, and differs when either of them differs.
HashMix(a, b) == (((a * 257) % 8355931) + ((b * 127) % 8355931) + 7) % 8355931

RECURSIVE HashFold(_, _, _)
\* the bytes lo..hi folded pairwise into one value below 2^23
HashFold(bytes, lo, hi) ==
    IF lo > hi THEN 0
    ELSE IF lo = hi THEN bytes[lo] + 1
    ELSE LET mid == (lo + hi) \div 2
         IN HashMix(HashFold(bytes, lo, mid), HashFold(bytes, mid + 1, hi))

\* Hash256Writer::finish on the bytes written: a 32-byte digest that is a
\* function of the bytes only.  Bytes 1..3 carry the fold, so two inputs
\* with different folds get different digests, and no digest is 32 zero
\* bytes (byte i is offset by i).
Hash256(bytes) ==
    LET h == HashMix(HashFold(bytes, 1, Len(bytes)), Len(bytes))
    IN [i \in 1..32 |->
          ((h \div (IF i % 3 = 1 THEN 1 ELSE IF i % 3 = 2 THEN 256 ELSE 65536)) + i)
             % 256]

\* Hash256Digest::default()
Hash256DigestDefault == [i \in 1..32 |-> 0]

---------------------------------------------------------------------------
(* Transaction parts. *)

\* ScriptSig::null(), ScriptPubkey::null()
ScriptNull == <<>>

\* Witness::null(): the empty stack
WitnessNull == <<>>

\* TxOut::null
TxOutNull ==
    [value |-> <<65535, 65535, 65535, 65535>>, script_pubkey |-> ScriptNull]

\* Ser for BitcoinOutpoint: txid (32) then idx (4, LE)
SerOutpoint(o) == o.txid \o write_u32_le(o.idx)

\* Ser for BitcoinTxIn
SerTxIn(i) ==
    SerOutpoint(i.outpoint) \o SerScript(i.script_sig) \o write_u32_le(i.sequence)

\* Ser for TxOut
SerTxOut(o) == write_u64_le(o.value) \o SerScript(o.script_pubkey)

\* Ser for Vin: the prefix, then each input
SerVin(vin) ==
    write_compact_int(Len(vin)) \o Flatten([i \in 1..Len(vin) |-> SerTxIn(vin[i])])

\* Ser for Vout: the prefix, then each output
SerVout(vout) ==
    write_compact_int(Len(vout)) \o Flatten([i \in 1..Len(vout) |-> SerTxOut(vout[i])])

\* LegacyTx::serialize
SerLegacyTx(t) ==
    write_u32_le(t.version) \o SerVin(t.vin) \o SerVout(t.vout)
        \o write_u32_le(t.locktime)

\* LegacyTx::default() (derived)
LegacyTxDefault == [version |-> 0, vin |-> <<>>, vout |-> <<>>, locktime |-> 0]

---------------------------------------------------------------------------
(* LegacyTx: the sighash helpers and write_sighash_preimage. *)

\* Mutation of legacy_sighash_prep: the script is length-prefixed before it
\* is stored as the script_sig, so that it is prefixed twice on the wire.
legacy_sighash_prep_prefixed(self, index, prevout_script) ==
    [self EXCEPT !.vin =
        [i \in 1..Len(self.vin) |->
            [self.vin[i] EXCEPT !.script_sig =
                IF i - 1 = index THEN SerScript(prevout_script) ELSE ScriptNull]]]

\* LegacyTx::legacy_sighash_prep: the clone whose script_sigs are all null
\* but the one at index, which is the raw bytes of prevout_script
legacy_sighash_prep(self, index, prevout_script) ==
    [self EXCEPT !.vin =
        [i \in 1..Len(self.vin) |->
            [self.vin[i] EXCEPT !.script_sig =
                IF i - 1 = index THEN prevout_script ELSE ScriptNull]]]

\* Mutation of legacy_sighash_single: the sequences are left as they are.
legacy_sighash_single_keep_sequences(copy, index) ==
    [copy EXCEPT
        !.vout = [i \in 1..index |-> TxOutNull] \o <<copy.vout[index + 1]>>]

\* LegacyTx::legacy_sighash_single; its caller has checked index < vout.len()
legacy_sighash_single(copy, index) ==
    [copy EXCEPT
        !.vout = [i \in 1..index |-> TxOutNull] \o <<copy.vout[index + 1]>>,
        !.vin = [i \in 1..Len(copy.vin) |->
                    IF i - 1 # index
                    THEN [copy.vin[i] EXCEPT !.sequence = 0]
                    ELSE copy.vin[i]]]

\* `copy_tx.vin[index]` of legacy_sighash_anyone_can_pay indexes out of range
AcpIndexPanics(copy, index) == index >= Len(copy.vin)

\* LegacyTx::legacy_sighash_anyone_can_pay, when the index is in range
legacy_sighash_anyone_can_pay(copy, index) ==
    [copy EXCEPT !.vin = <<copy.vin[index + 1]>>]

\* The outcome of a preimage writer: what it returned, what it wrote, and
\* the transaction it serialized (LegacyTxDefault when it serialized none).
Outcome(r, bytes, copy) == [ret |-> r, out |-> bytes, copy_tx |-> copy]

\* Mutation of write_sighash_preimage: only SIGHASH_NONE is refused, and
\* NONE|ACP goes on to be serialized.
write_sighash_preimage_none_only(self, a) ==
    IF a.sighash_flag = SIGHASH_NONE
    THEN Outcome("NoneUnsupported", <<>>, LegacyTxDefault)
    ELSE
      LET prepped == legacy_sighash_prep(self, a.index, a.prevout_script)
          is_single == a.sighash_flag = SIGHASH_SINGLE
                          \/ a.sighash_flag = SIGHASH_SINGLE_ACP
      IN IF is_single /\ a.index >= Len(self.vout)
         THEN Outcome("SighashSingleBug", <<>>, LegacyTxDefault)
         ELSE
           LET singled == IF is_single
                          THEN legacy_sighash_single(prepped, a.index)
                          ELSE prepped
           IN IF IsACP(a.sighash_flag) /\ AcpIndexPanics(singled, a.index)
              THEN Outcome("Panic", <<>>, LegacyTxDefault)
              ELSE
                LET final == IF IsACP(a.sighash_flag)
                             THEN legacy_sighash_anyone_can_pay(singled, a.index)
                             ELSE singled
                IN Outcome("Ok",
                           SerLegacyTx(final) \o write_u32_le(a.sighash_flag),
                           final)

\* Mutation of write_sighash_preimage: the ANYONECANPAY step runs before
\* the SINGLE step, which then sees a vin of one input.
write_sighash_preimage_acp_first(self, a) ==
    IF a.sighash_flag = SIGHASH_NONE \/ a.sighash_flag = SIGHASH_NONE_ACP
    THEN Outcome("NoneUnsupported", <<>>, LegacyTxDefault)
    ELSE
      LET prepped == legacy_sighash_prep(self, a.index, a.prevout_script)
          is_single == a.sighash_flag = SIGHASH_SINGLE
                          \/ a.sighash_flag = SIGHASH_SINGLE_ACP
      IN IF IsACP(a.sighash_flag) /\ AcpIndexPanics(prepped, a.index)
         THEN Outcome("Panic", <<>>, LegacyTxDefault)
         ELSE
           LET only == IF IsACP(a.sighash_flag)
                       THEN legacy_sighash_anyone_can_pay(prepped, a.index)
                       ELSE prepped
           IN IF is_single /\ a.index >= Len(self.vout)
              THEN Outcome("SighashSingleBug", <<>>, LegacyTxDefault)
              ELSE
                LET final == IF is_single
                             THEN legacy_sighash_single(only, a.index)
                             ELSE only
                IN Outcome("Ok",
                           SerLegacyTx(final) \o write_u32_le(a.sighash_flag),
                           final)

\* LegacyTx::write_sighash_preimage
write_sighash_preimage(self, a) ==
    IF a.sighash_flag = SIGHASH_NONE \/ a.sighash_flag = SIGHASH_NONE_ACP
    THEN Outcome("NoneUnsupported", <<>>, LegacyTxDefault)
    ELSE
      LET prepped == legacy_sighash_prep(self, a.index, a.prevout_script)
          is_single == a.sighash_flag = SIGHASH_SINGLE
                          \/ a.sighash_flag = SIGHASH_SINGLE_ACP
      IN IF is_single /\ a.index >= Len(self.vout)
         THEN Outcome("SighashSingleBug", <<>>, LegacyTxDefault)
         ELSE
           LET singled == IF is_single
                          THEN legacy_sighash_single(prepped, a.index)
                          ELSE prepped
           IN IF IsACP(a.sighash_flag) /\ AcpIndexPanics(singled, a.index)
              THEN Outcome("Panic", <<>>, LegacyTxDefault)
              ELSE
                LET final == IF IsACP(a.sighash_flag)
                             THEN legacy_sighash_anyone_can_pay(singled, a.index)
                             ELSE singled
                IN Outcome("Ok",
                           SerLegacyTx(final) \o write_u32_le(a.sighash_flag),
                           final)

---------------------------------------------------------------------------
(* WitnessTx: the BIP143 hashes and write_witness_sighash_preimage. *)

\* Mutation of hash_prevouts: ANYONECANPAY is not looked at.
hash_prevouts_of_all(self, sighash_flag) ==
    Hash256(Flatten([i \in 1..Len(self.legacy_tx.vin) |->
                       SerOutpoint(self.legacy_tx.vin[i].outpoint)]))

\* WitnessTx::hash_prevouts
hash_prevouts(self, sighash_flag) ==
    IF IsACP(sighash_flag)
    THEN Hash256DigestDefault
    ELSE Hash256(Flatten([i \in 1..Len(self.legacy_tx.vin) |->
                            SerOutpoint(self.legacy_tx.vin[i].outpoint)]))

\* Mutation of hash_sequence: SINGLE is not told from ALL.
hash_sequence_acp_only(self, sighash_flag) ==
    IF IsACP(sighash_flag)
    THEN Hash256DigestDefault
    ELSE Hash256(Flatten([i \in 1..Len(self.legacy_tx.vin) |->
                            write_u32_le(self.legacy_tx.vin[i].sequence)]))

\* WitnessTx::hash_sequence
hash_sequence(self, sighash_flag) ==
    IF sighash_flag = SIGHASH_SINGLE \/ IsACP(sighash_flag)
    THEN Hash256DigestDefault
    ELSE Hash256(Flatten([i \in 1..Len(self.legacy_tx.vin) |->
                            write_u32_le(self.legacy_tx.vin[i].sequence)]))

\* Mutation of hash_outputs: SINGLE hashes the first output, whatever the
\* index.
hash_outputs_first(self, index, sighash_flag) ==
    IF sighash_flag = SIGHASH_ALL \/ sighash_flag = SIGHASH_ALL_ACP
    THEN Hash256(Flatten([i \in 1..Len(self.legacy_tx.vout) |->
                            SerTxOut(self.legacy_tx.vout[i])]))
    ELSE IF sighash_flag = SIGHASH_SINGLE \/ sighash_flag = SIGHASH_SINGLE_ACP
    THEN Hash256(SerTxOut(self.legacy_tx.vout[1]))
    ELSE Hash256DigestDefault

\* WitnessTx::hash_outputs; for SINGLE and SINGLE|ACP its caller has checked
\* index < vout.len()
hash_outputs(self, index, sighash_flag) ==
    IF sighash_flag = SIGHASH_ALL \/ sighash_flag = SIGHASH_ALL_ACP
    THEN Hash256(Flatten([i \in 1..Len(self.legacy_tx.vout) |->
                            SerTxOut(self.legacy_tx.vout[i])]))
    ELSE IF sighash_flag = SIGHASH_SINGLE \/ sighash_flag = SIGHASH_SINGLE_ACP
    THEN Hash256(SerTxOut(self.legacy_tx.vout[index + 1]))
    ELSE Hash256DigestDefault

\* `&self.legacy_tx.vin[args.index]` of write_witness_sighash_preimage
\* indexes out of range
InputIndexPanics(self, a) == a.index >= Len(self.legacy_tx.vin)

\* Mutation of witness_preimage_writes: the flag is written as the one byte
\* that is appended to signatures.
witness_preimage_writes_flag_byte(self, a) ==
    LET input == self.legacy_tx.vin[a.index + 1]
    IN write_u32_le(self.legacy_tx.version)
          \o hash_prevouts(self, a.sighash_flag)
          \o hash_sequence(self, a.sighash_flag)
          \o SerOutpoint(input.outpoint)
          \o SerScript(a.prevout_script)
          \o write_u64_le(a.prevout_value)
          \o write_u32_le(input.sequence)
          \o hash_outputs(self, a.index, a.sighash_flag)
          \o write_u32_le(self.legacy_tx.locktime)
          \o <<a.sighash_flag>>

\* The writes of write_witness_sighash_preimage, in their order, for the
\* input at args.index
witness_preimage_writes(self, a) ==
    LET input == self.legacy_tx.vin[a.index + 1]
    IN write_u32_le(self.legacy_tx.version)
          \o hash_prevouts(self, a.sighash_flag)
          \o hash_sequence(self, a.sighash_flag)
          \o SerOutpoint(input.outpoint)
          \o SerScript(a.prevout_script)
          \o write_u64_le(a.prevout_value)
          \o write_u32_le(input.sequence)
          \o hash_outputs(self, a.index, a.sighash_flag)
          \o write_u32_le(self.legacy_tx.locktime)
          \o write_u32_le(a.sighash_flag)

\* Mutation of write_witness_sighash_preimage: the input is borrowed before
\* the flag and the output index are checked.
write_witness_sighash_preimage_borrow_first(self, a) ==
    IF InputIndexPanics(self, a)
    THEN Outcome("Panic", <<>>, LegacyTxDefault)
    ELSE IF a.sighash_flag = SIGHASH_NONE \/ a.sighash_flag = SIGHASH_NONE_ACP
    THEN Outcome("NoneUnsupported", <<>>, LegacyTxDefault)
    ELSE IF (a.sighash_flag = SIGHASH_SINGLE \/ a.sighash_flag = SIGHASH_SINGLE_ACP)
             /\ a.index >= Len(self.legacy_tx.vout)
    THEN Outcome("SighashSingleBug", <<>>, LegacyTxDefault)
    ELSE Outcome("Ok", witness_preimage_writes(self, a), LegacyTxDefault)

\* Mutation of write_witness_sighash_preimage: the output index is checked
\* where hash_outputs is written, after the writes before it.
write_witness_sighash_preimage_late_check(self, a) ==
    IF a.sighash_flag = SIGHASH_NONE \/ a.sighash_flag = SIGHASH_NONE_ACP
    THEN Outcome("NoneUnsupported", <<>>, LegacyTxDefault)
    ELSE IF InputIndexPanics(self, a)
    THEN Outcome("Panic", <<>>, LegacyTxDefault)
    ELSE IF (a.sighash_flag = SIGHASH_SINGLE \/ a.sighash_flag = SIGHASH_SINGLE_ACP)
             /\ a.index >= Len(self.legacy_tx.vout)
    THEN Outcome("SighashSingleBug",
                 write_u32_le(self.legacy_tx.version)
                    \o hash_prevouts(self, a.sighash_flag)
                    \o hash_sequence(self, a.sighash_flag),
                 LegacyTxDefault)
    ELSE Outcome("Ok", witness_preimage_writes(self, a), LegacyTxDefault)

\* WitnessTx::write_witness_sighash_preimage
write_witness_sighash_preimage(self, a) ==
    IF a.sighash_flag = SIGHASH_NONE \/ a.sighash_flag = SIGHASH_NONE_ACP
    THEN Outcome("NoneUnsupported", <<>>, LegacyTxDefault)
    ELSE IF (a.sighash_flag = SIGHASH_SINGLE \/ a.sighash_flag = SIGHASH_SINGLE_ACP)
             /\ a.index >= Len(self.legacy_tx.vout)
    THEN Outcome("SighashSingleBug", <<>>, LegacyTxDefault)
    ELSE IF InputIndexPanics(self, a)
    THEN Outcome("Panic", <<>>, LegacyTxDefault)
    ELSE Outcome("Ok", witness_preimage_writes(self, a), LegacyTxDefault)

\* WitnessTx::write_legacy_sighash_preimage
write_legacy_sighash_preimage(self, a) ==
    write_sighash_preimage(self.legacy_tx, a)

---------------------------------------------------------------------------
(* The values the caller draws its arguments from. *)

\* all sequences over S of length at most n
SeqsUpTo(S, n) == UNION {[1..k -> S] : k \in 0..n}

\* a 32-byte txid
TxidOf(k) == [i \in 1..32 |-> (k * 37 + i) % 256]

\* a signed legacy input and an unsigned segwit input
TxIns ==
    {[outpoint |-> [txid |-> TxidOf(1), idx |-> 0],
      script_sig |-> <<71, 48, 1>>, sequence |-> 2147483645],
     [outpoint |-> [txid |-> TxidOf(2), idx |-> 1],
      script_sig |-> <<>>, sequence |-> 16777214]}

TxOuts ==
    {[value |-> <<54131, 1, 0, 0>>, script_pubkey |-> <<169, 20, 135>>],
     [value |-> <<0, 0, 4096, 0>>, script_pubkey |-> <<106, 1, 255>>]}

\* (version, locktime) pairs
Headers == {<<1, 0>>, <<2, 523722>>}

\* a one-byte script, a 25-byte pay-to-pubkey-hash script, and a script of
\* 253 bytes, the shortest whose length prefix takes three bytes
PrevoutScripts ==
    {<<81>>,
     <<118, 169, 20>> \o [i \in 1..20 |-> 16 + i] \o <<136, 172>>,
     [i \in 1..253 |-> (i * 7) % 256]}

\* the witnesses vectors given to WitnessTransaction::new: of every length
\* up to MaxWit, which is more than some vin and less than others
WitnessVectors ==
    {[i \in 1..k |-> IF i = 1 THEN <<<<48, 1>>, <<2, 3, 4>>>> ELSE WitnessNull] :
        k \in 0..MaxWit}

PrevoutValues == {<<54464, 1, 0, 0>>}

\* index ranges past both vin.len() and vout.len()
Indices == 0..(IF MaxIn > MaxOut THEN MaxIn ELSE MaxOut)

LegacySighashArgs ==
    [index : Indices, sighash_flag : Sighash, prevout_script : PrevoutScripts,
     prevout_value : {<<0, 0, 0, 0>>}]

WitnessSighashArgs ==
    [index : Indices, sighash_flag : Sighash, prevout_script : PrevoutScripts,
     prevout_value : PrevoutValues]

NoArgs ==
    [index |-> 0, sighash_flag |-> SIGHASH_ALL, prevout_script |-> <<>>,
     prevout_value |-> <<0, 0, 0, 0>>]

---------------------------------------------------------------------------
(* Constructors. *)

\* <LegacyTx as Transaction>::new
LegacyTx_new(version, vin, vout, locktime) ==
    [version |-> version, vin |-> vin, vout |-> vout, locktime |-> locktime]

\* <WitnessTx as Transaction>::new: one null witness per input
WitnessTx_new(version, vin, vout, locktime) ==
    [legacy_tx |-> LegacyTx_new(version, vin, vout, locktime),
     witnesses |-> [i \in 1..Len(vin) |-> WitnessNull]]

\* <WitnessTx as WitnessTransaction>::new: the witnesses as given
WitnessTransaction_new(version, vin, vout, witnesses, locktime) ==
    [legacy_tx |-> LegacyTx_new(version, vin, vout, locktime),
     witnesses |-> witnesses]

---------------------------------------------------------------------------
(* The wire codec: WitnessTx::serialize and the deserializers.             *)

\* Ser for Witness: the stack depth, then each length-prefixed stack item
SerWitness(w) ==
    write_compact_int(Len(w)) \o Flatten([i \in 1..Len(w) |-> SerScript(w[i])])

\* Ser for Vec<Witness>: the witnesses one after another, without a prefix
SerWitnesses(ws) == Flatten([i \in 1..Len(ws) |-> SerWitness(ws[i])])

\* WitnessTx::serialize
WitnessTx_serialize(self) ==
    write_u32_le(self.legacy_tx.version) \o <<0, 1>>
        \o SerVin(self.legacy_tx.vin) \o SerVout(self.legacy_tx.vout)
        \o SerWitnesses(self.witnesses)
        \o write_u32_le(self.legacy_tx.locktime)

\* A reader over the bytes b: err is "" until a read fails and then names
\* the error; pos is the 1-based position of the next unread byte; out is
\* the values read so far, the last read last (when a read has failed, what
\* the error carries).  A read on a reader that has failed does nothing, as
\* `?` returns from the deserializer at the first error.
Reader(p) == [err |-> "", out |-> <<>>, pos |-> p]

\* the reader after a failed read
Fail(e, carried) == [err |-> e, out |-> carried, pos |-> 0]

\* the value read last
Top(rd) == rd.out[Len(rd.out)]

\* the reader with the value read last replaced by v
SetTop(rd, v) == [rd EXCEPT !.out[Len(rd.out)] = v]

\* the reader with the value read last dropped
Pop(rd) == [rd EXCEPT !.out = SubSeq(rd.out, 1, Len(rd.out) - 1)]

\* the reader with the n values read last gathered into the one value v
Pack(rd, n, v) ==
    [rd EXCEPT !.out = Append(SubSeq(rd.out, 1, Len(rd.out) - n), v)]

\* the n values read last, in the order they were read
LastRead(rd, n) == SubSeq(rd.out, Len(rd.out) - n + 1, Len(rd.out))

\* Read::read_exact of n bytes
read_exact(b, rd, n) ==
    IF rd.err # "" THEN rd
    ELSE IF n > Len(b) - rd.pos + 1 THEN Fail("UnexpectedEOF", <<>>)
    ELSE [rd EXCEPT !.out = Append(rd.out, SubSeq(b, rd.pos, rd.pos + n - 1)),
                    !.pos = rd.pos + n]

\* The four bytes read last as a little-endian u32.  A u32 of 2^31 or more
\* is held as the 32-bit integer with the same bits (the value less 2^32),
\* which write_u32_le writes back as the same four bytes.
u32_from_le_bytes(rd) ==
    IF rd.err # "" THEN rd
    ELSE SetTop(rd, Top(rd)[1] + Top(rd)[2] * 256 + Top(rd)[3] * 65536
                      + (IF Top(rd)[4] >= 128 THEN Top(rd)[4] - 256
                         ELSE Top(rd)[4]) * 16777216)

\* Ser::read_u32_le
read_u32_le(b, rd) == u32_from_le_bytes(read_exact(b, rd, 4))

\* the eight bytes read last as the four 16-bit limbs of a u64
u64_from_le_bytes(rd) ==
    IF rd.err # "" THEN rd
    ELSE SetTop(rd, [i \in 1..4 |-> Top(rd)[2 * i - 1] + Top(rd)[2 * i] * 256])

\* Ser::read_u64_le
read_u64_le(b, rd) == u64_from_le_bytes(read_exact(b, rd, 8))

\* The number after a compact-size prefix byte of 0xfd, 0xfe or 0xff, from
\* the 2, 4 or 8 bytes read last.  Only the minimal encoding of a number is
\* accepted; a number of 2^32 or more is too large to be a length, and one
\* of 2^31 or more, longer than any input here, is read as 2^31 - 1.
compact_int_body(rd) ==
    IF rd.err # "" THEN rd
    ELSE IF Len(Top(rd)) = 2
    THEN IF Top(rd)[2] = 0 /\ Top(rd)[1] <= 252
         THEN Fail("NonMinimalVarInt", <<>>)
         ELSE SetTop(rd, Top(rd)[1] + Top(rd)[2] * 256)
    ELSE IF Len(Top(rd)) = 4
    THEN IF Top(rd)[3] = 0 /\ Top(rd)[4] = 0
         THEN Fail("NonMinimalVarInt", <<>>)
         ELSE IF Top(rd)[4] >= 128 THEN SetTop(rd, 2147483647)
         ELSE u32_from_le_bytes(rd)
    ELSE IF \A i \in 5..8 : Top(rd)[i] = 0
         THEN Fail("NonMinimalVarInt", <<>>)
         ELSE Fail("VarintTooLarge", <<>>)

\* the compact-size number whose prefix byte was read last
compact_int_after_prefix(b, rd) ==
    IF rd.err # "" THEN rd
    ELSE IF Top(rd)[1] <= 252 THEN SetTop(rd, Top(rd)[1])
    ELSE compact_int_body(
            read_exact(b, Pop(rd),
                       IF Top(rd)[1] = 253 THEN 2
                       ELSE IF Top(rd)[1] = 254 THEN 4 ELSE 8))

\* Ser::read_compact_int
read_compact_int(b, rd) == compact_int_after_prefix(b, read_exact(b, rd, 1))

\* the bytes of a byte vector whose length was read last
script_after_prefix(b, rd) ==
    IF rd.err # "" THEN rd ELSE read_exact(b, Pop(rd), Top(rd))

\* Ser::deserialize for a length-prefixed byte vector
read_script(b, rd) == script_after_prefix(b, read_compact_int(b, rd))

\* the txid and idx read last, as an outpoint
outpoint_of(rd) ==
    IF rd.err # "" THEN rd
    ELSE Pack(rd, 2, [txid |-> LastRead(rd, 2)[1], idx |-> LastRead(rd, 2)[2]])

\* Ser::deserialize for BitcoinOutpoint
read_outpoint(b, rd) == outpoint_of(read_u32_le(b, read_exact(b, rd, 32)))

\* the outpoint, script_sig and sequence read last, as an input
txin_of(rd) ==
    IF rd.err # "" THEN rd
    ELSE Pack(rd, 3, [outpoint |-> LastRead(rd, 3)[1],
                      script_sig |-> LastRead(rd, 3)[2],
                      sequence |-> LastRead(rd, 3)[3]])

\* Ser::deserialize for BitcoinTxIn
read_txin(b, rd) == txin_of(read_u32_le(b, read_script(b, read_outpoint(b, rd))))

\* the value and script_pubkey read last, as an output
txout_of(rd) ==
    IF rd.err # "" THEN rd
    ELSE Pack(rd, 2, [value |-> LastRead(rd, 2)[1],
                      script_pubkey |-> LastRead(rd, 2)[2]])

\* TxOut::deserialize
read_txout(b, rd) == txout_of(read_script(b, read_u64_le(b, rd)))

\* the n values read last, as one vector
vec_of(rd, n) == IF rd.err # "" THEN rd ELSE Pack(rd, n, LastRead(rd, n))

RECURSIVE read_txins(_, _, _)
\* n inputs one after another
read_txins(b, rd, n) ==
    IF rd.err # "" \/ n = 0 THEN rd ELSE read_txins(b, read_txin(b, rd), n - 1)

RECURSIVE read_txouts(_, _, _)
\* n outputs one after another
read_txouts(b, rd, n) ==
    IF rd.err # "" \/ n = 0 THEN rd ELSE read_txouts(b, read_txout(b, rd), n - 1)

RECURSIVE read_stack_items(_, _, _)
\* n length-prefixed witness stack items one after another
read_stack_items(b, rd, n) ==
    IF rd.err # "" \/ n = 0 THEN rd
    ELSE read_stack_items(b, read_script(b, rd), n - 1)

\* the inputs whose number was read last
vin_after_prefix(b, rd) ==
    IF rd.err # "" THEN rd ELSE vec_of(read_txins(b, Pop(rd), Top(rd)), Top(rd))

\* Vin::deserialize: the prefix, then that many inputs
read_vin(b, rd) == vin_after_prefix(b, read_compact_int(b, rd))

\* the outputs whose number was read last
vout_after_prefix(b, rd) ==
    IF rd.err # "" THEN rd ELSE vec_of(read_txouts(b, Pop(rd), Top(rd)), Top(rd))

\* Vout::deserialize: the prefix, then that many outputs
read_vout(b, rd) == vout_after_prefix(b, read_compact_int(b, rd))

\* the stack items whose number was read last
witness_after_prefix(b, rd) ==
    IF rd.err # "" THEN rd
    ELSE vec_of(read_stack_items(b, Pop(rd), Top(rd)), Top(rd))

\* Ser::deserialize for a Witness: the depth, then that many stack items
read_witness(b, rd) == witness_after_prefix(b, read_compact_int(b, rd))

RECURSIVE read_witness_items(_, _, _)
\* n witnesses one after another
read_witness_items(b, rd, n) ==
    IF rd.err # "" \/ n = 0 THEN rd
    ELSE read_witness_items(b, read_witness(b, rd), n - 1)

\* Vec::<Witness>::deserialize(reader, limit): limit witnesses one after
\* another, without a prefix
read_witnesses(b, rd, limit) ==
    IF rd.err # "" THEN rd ELSE vec_of(read_witness_items(b, rd, limit), limit)

\* the version, vin, vout and locktime read last, as a LegacyTx
LegacyTx_of(rd) ==
    IF rd.err # "" THEN rd
    ELSE Pack(rd, 4, [version |-> LastRead(rd, 4)[1], vin |-> LastRead(rd, 4)[2],
                      vout |-> LastRead(rd, 4)[3], locktime |-> LastRead(rd, 4)[4]])

\* LegacyTx::deserialize at the start of b: out holds the value read, and
\* pos is where the reader stands afterwards
LegacyTx_deserialize(b) ==
    LegacyTx_of(read_u32_le(b, read_vout(b, read_vin(b, read_u32_le(b, Reader(1))))))

\* the version, vin, vout, witnesses and locktime read last, as a WitnessTx
WitnessTx_of(rd) ==
    IF rd.err # "" THEN rd
    ELSE Pack(rd, 5, [legacy_tx |->
                         [version |-> LastRead(rd, 5)[1],
                          vin |-> LastRead(rd, 5)[2],
                          vout |-> LastRead(rd, 5)[3],
                          locktime |-> LastRead(rd, 5)[5]],
                      witnesses |-> LastRead(rd, 5)[4]])

\* the witnesses of a WitnessTx, after its vin and vout: one for each input
\* read (vin.len() is the limit)
witnesses_after_vout(b, rd) ==
    IF rd.err # "" THEN rd ELSE read_witnesses(b, rd, Len(LastRead(rd, 2)[1]))

\* what WitnessTx::deserialize reads after the flag: vin, vout, the
\* witnesses and the locktime
WitnessTx_deserialize_body(b, rd) ==
    WitnessTx_of(read_u32_le(b, witnesses_after_vout(b, read_vout(b, read_vin(b, rd)))))

\* Mutation of WitnessTx_after_flag: only the marker byte is compared.
WitnessTx_after_flag_marker_only(b, rd) ==
    IF rd.err # "" THEN rd
    ELSE IF Top(rd)[1] # 0 THEN Fail("BadWitnessFlag", Top(rd))
    ELSE WitnessTx_deserialize_body(b, Pop(rd))

\* WitnessTx::deserialize once the two flag bytes are read:
\* `if flag != [0u8, 1u8] { return Err(TxError::BadWitnessFlag(flag)); }`
WitnessTx_after_flag(b, rd) ==
    IF rd.err # "" THEN rd
    ELSE IF Top(rd) # <<0, 1>> THEN Fail("BadWitnessFlag", Top(rd))
    ELSE WitnessTx_deserialize_body(b, Pop(rd))

\* WitnessTx::deserialize at the start of b
WitnessTx_deserialize(b) ==
    WitnessTx_after_flag(b, read_exact(b, read_u32_le(b, Reader(1)), 2))

\* WitnessTx::without_witness
without_witness(self) == self.legacy_tx

\* Transaction::txid for LegacyTx: the hash of its serialization
LegacyTx_txid(self) == Hash256(SerLegacyTx(self))

\* Mutation of WitnessTx_txid: the witness serialization is hashed.
WitnessTx_txid_with_witnesses(self) == Hash256(WitnessTx_serialize(self))

\* WitnessTx::txid: version, vin, vout and locktime written to the hasher
WitnessTx_txid(self) ==
    Hash256(write_u32_le(self.legacy_tx.version)
               \o SerVin(self.legacy_tx.vin) \o SerVout(self.legacy_tx.vout)
               \o write_u32_le(self.legacy_tx.locktime))

\* WitnessTx::wtxid: the hash of the witness serialization
WitnessTx_wtxid(self) == Hash256(WitnessTx_serialize(self))

\* not deserialized yet
NotParsed == [err |-> "none", val |-> <<>>, pos |-> 0, kind |-> "none"]

---------------------------------------------------------------------------
(* Script classification: ScriptPubkey::standard_type of the bitcoin crate *)
(* and Script::determine_type of the older crate.  A ScriptType is a       *)
(* record of the variant's name and the bytes it carries.                  *)

\* a ScriptType variant with its payload
ScriptType(name, bytes) == [type |-> name, payload |-> bytes]

\* ScriptType::NonStandard
NonStandard == ScriptType("NonStandard", <<>>)

\* no classification asked for yet
Unclassified == ScriptType("none", <<>>)

\* Option<Vec<u8>>
None == [some |-> FALSE, data |-> <<>>]
Some(bytes) == [some |-> TRUE, data |-> bytes]

\* Mutation of extract_op_return_data: the push length is not limited to
\* 75.
extract_op_return_data_any_length(self) ==
    IF Len(self) < 2 THEN None
    ELSE IF self[1] = 106 /\ self[2] = Len(self) - 2
    THEN Some(SubSeq(self, 3, Len(self)))
    ELSE None

\* ScriptPubkey::extract_op_return_data
extract_op_return_data(self) ==
    IF Len(self) < 2 THEN None
    ELSE IF self[1] = 106 /\ self[2] <= 75 /\ self[2] = Len(self) - 2
    THEN Some(SubSeq(self, 3, Len(self)))
    ELSE None

\* the match on self.0.len() of ScriptPubkey::standard_type, with its
\* fallthrough; items[a..b] of the source is SubSeq(items, a + 1, b)
standard_type_by_length(items) ==
    IF Len(items) = 25
    THEN IF SubSeq(items, 1, 3) = <<118, 169, 20>>
              /\ SubSeq(items, 24, Len(items)) = <<136, 172>>
         THEN ScriptType("PKH", SubSeq(items, 4, 23))
         ELSE NonStandard
    ELSE IF Len(items) = 23
    THEN IF SubSeq(items, 1, 2) = <<169, 20>>
              /\ SubSeq(items, 23, Len(items)) = <<135>>
         THEN ScriptType("SH", SubSeq(items, 3, 22))
         ELSE NonStandard
    ELSE IF Len(items) = 22
    THEN IF SubSeq(items, 1, 2) = <<0, 20>>
         THEN ScriptType("WPKH", SubSeq(items, 3, 22))
         ELSE NonStandard
    ELSE IF Len(items) = 34
    THEN IF SubSeq(items, 1, 2) = <<0, 32>>
         THEN ScriptType("WSH", SubSeq(items, 3, 34))
         ELSE NonStandard
    ELSE NonStandard

\* ScriptPubkey::standard_type
standard_type(self) ==
    IF extract_op_return_data(self).some
    THEN ScriptType("OP_RETURN", extract_op_return_data(self).data)
    ELSE standard_type_by_length(self)

\* Script::determine_type of the older crate.  items[a..=b] of the source
\* is SubSeq(items, a + 1, b + 1); a slice equals an array only when their
\* lengths are equal, as sequences do.
determine_type(items) ==
    IF Len(items) = 25
    THEN IF SubSeq(items, 1, 3) = <<118, 169, 20>>
              /\ SubSeq(items, 18, 19) = <<136, 172>>
         THEN ScriptType("PKH", <<>>)
         ELSE NonStandard
    ELSE IF Len(items) = 23
    THEN IF SubSeq(items, 1, 3) = <<169, 20>>
              /\ SubSeq(items, 18, 19) = <<135>>
         THEN ScriptType("SH", <<>>)
         ELSE NonStandard
    ELSE IF Len(items) = 22
    THEN IF SubSeq(items, 1, 2) = <<0, 20>>
         THEN ScriptType("WPKH", <<>>)
         ELSE NonStandard
    ELSE IF Len(items) = 34
    THEN IF SubSeq(items, 1, 2) = <<0, 32>>
         THEN ScriptType("WSH", <<>>)
         ELSE NonStandard
    ELSE NonStandard

\* n bytes of payload, never 0x88 0xac at the offsets 17 and 18 of a script
Payload(n) == [i \in 1..n |-> (i * 11 + 5) % 256]

\* the scripts of the standard forms, OP_RETURN scripts whose length is
\* that of a standard form or whose push is 0, 75 or 76 bytes or disagrees
\* with the length, a pay-to-pubkey-hash script with 88 ac inside its
\* hash, and scripts of 0, 1 and 2 bytes
ScriptForms ==
    {<<118, 169, 20>> \o Payload(20) \o <<136, 172>>,
     <<118, 169, 20>> \o [i \in 1..20 |-> IF i = 15 THEN 136
                                          ELSE IF i = 16 THEN 172 ELSE i]
         \o <<136, 172>>,
     <<169, 20>> \o Payload(20) \o <<135>>,
     <<0, 20>> \o Payload(20),
     <<0, 32>> \o Payload(32),
     <<>>, <<106>>, <<0>>, <<106, 0>>, <<106, 1>>, <<0, 20>>}
    \cup {<<106, n>> \o Payload(n) : n \in {4, 20, 21, 23, 32, 75, 76}}
    \cup {<<106, 5>> \o Payload(4), <<106, 4>> \o Payload(5)}

\* the script s with the byte at offset i (0-based) set to v, when it has
\* one there
SetByte(s, i, v) ==
    IF i < Len(s) THEN [s EXCEPT ![i + 1] = v] ELSE s

\* The scripts classified: the forms, each with one byte changed at its
\* start, at its end or at offset 17, one byte shorter, and one byte
\* longer.
Scripts ==
    ScriptForms
    \cup {SetByte(s, i, v) : s \in ScriptForms, i \in {0, 1, 2, 17, 18},
                             v \in {0, 106, 135, 136, 172}}
    \cup {SetByte(s, Len(s) - k, v) : s \in {f \in ScriptForms : Len(f) > 2},
                                      k \in {1, 2}, v \in {0, 135, 137}}
    \cup {SubSeq(s, 1, Len(s) - 1) : s \in {f \in ScriptForms : Len(f) > 0}}
    \cup {Append(s, 172) : s \in ScriptForms}

---------------------------------------------------------------------------
(* PSBT key/value schemas.  A key and a value are byte strings; the key
   type of a key is its first byte.  A result is Ok or Err(e), e naming the
   PSBTError and carrying its fields. *)

Ok == [ok |-> TRUE]

Err(e) == [ok |-> FALSE, err |-> e]

\* PSBTKey::key_type
key_type_of(key) == key[1]

\* validate_bip32_value
validate_bip32_value(val) ==
    IF Len(val) # 0 /\ Len(val) % 4 # 0
    THEN Err(<<"InvalidBIP32Path">>)
    ELSE Ok

\* validate_fixed_key_length
validate_fixed_key_length(key, length) ==
    IF Len(key) # length
    THEN Err(<<"WrongKeyLength", length, Len(key)>>)
    ELSE Ok

\* validate_fixed_val_length
validate_fixed_val_length(val, length) ==
    IF Len(val) # length
    THEN Err(<<"WrongValueLength", length, Len(val)>>)
    ELSE Ok

\* validate_single_byte_key_type
validate_single_byte_key_type(key) == validate_fixed_key_length(key, 1)

\* validate_expected_key_type
validate_expected_key_type(key, key_type) ==
    IF key_type_of(key) # key_type
    THEN Err(<<"WrongKeyType", key_type, key_type_of(key)>>)
    ELSE Ok

\* the result of LegacyTx::deserialize(..).map(|_| ()) as a PSBT result
unit_of(rd) == IF rd.err = "" THEN Ok ELSE Err(<<rd.err>>)

\* validate_val_is_tx
validate_val_is_tx(val) == unit_of(LegacyTx_deserialize(val))

\* a ? b: the result a when it is an error, and b otherwise
Try(a, b) == IF a.ok THEN b ELSE a

\* global::validate_tx
global_validate_tx(key, val) ==
    Try(validate_expected_key_type(key, 0),
        Try(validate_single_byte_key_type(key), validate_val_is_tx(val)))

\* global::validate_xpub
global_validate_xpub(key, val) ==
    Try(validate_expected_key_type(key, 1),
        Try(validate_fixed_key_length(key, 79), validate_bip32_value(val)))

\* global::validate_version
global_validate_version(key, val) ==
    Try(validate_expected_key_type(key, 251),
        Try(validate_single_byte_key_type(key),
            validate_fixed_val_length(val, 4)))

\* output::validate_bip32_derivations
output_validate_bip32_derivations(key, val) ==
    Try(validate_expected_key_type(key, 2),
        Try(validate_fixed_key_length(key, 34), validate_bip32_value(val)))

\* input::validate_bip32_derivations
input_validate_bip32_derivations(key, val) ==
    Try(validate_expected_key_type(key, 6),
        Try(validate_fixed_key_length(key, 34), validate_bip32_value(val)))

\* A KVPredicate is a boxed closure: one that calls a named function, or
\* the closure insert builds from two of them.
Closure(f) == [fn |-> f]

\* the call of the function a closure names; "accept" and "reject" are
\* closures of the caller that look at neither key nor value
Call(f, key, val) ==
    CASE f = "global::validate_tx" -> global_validate_tx(key, val)
      [] f = "global::validate_xpub" -> global_validate_xpub(key, val)
      [] f = "global::validate_version" -> global_validate_version(key, val)
      [] f = "output::validate_bip32_derivations" ->
             output_validate_bip32_derivations(key, val)
      [] f = "input::validate_bip32_derivations" ->
             input_validate_bip32_derivations(key, val)
      [] f = "accept" -> Ok
      [] f = "reject" -> Err(<<"InvalidPSBT">>)

\* The call p(key, val) of a KVPredicate, continuing the evaluation st:
\* st.res is the result so far and st.calls the named functions called so
\* far.  An earlier error ends the evaluation, as ? does in the closure
\* that insert builds.
RECURSIVE Eval(_, _, _, _)
Eval(p, key, val, st) ==
    IF ~st.res.ok THEN st
    ELSE IF "fn" \in DOMAIN p
    THEN [res |-> Call(p.fn, key, val), calls |-> Append(st.calls, p.fn)]
    ELSE Eval(p.new, key, val, Eval(p.predicate, key, val, st))

\* the call p(key, val) from the start
Apply(p, key, val) == Eval(p, key, val, [res |-> Ok, calls |-> <<>>])

\* KVTypeSchema::insert with the predicates in the other order
KVTypeSchema_insert_new_first(self, key_type, new) ==
    [t \in DOMAIN self \cup {key_type} |->
        IF t # key_type THEN self[t]
        ELSE IF key_type \in DOMAIN self
        THEN [predicate |-> new, new |-> self[key_type]]
        ELSE new]

\* KVTypeSchema::insert
KVTypeSchema_insert(self, key_type, new) ==
    [t \in DOMAIN self \cup {key_type} |->
        IF t # key_type THEN self[t]
        ELSE IF key_type \in DOMAIN self
        THEN [predicate |-> self[key_type], new |-> new]
        ELSE new]

\* KVTypeSchema::remove
KVTypeSchema_remove(self, key_type) ==
    [t \in DOMAIN self \ {key_type} |-> self[t]]

\* KVTypeSchema::default
KVTypeSchema_default == <<>>

---------------------------------------------------------------------------
(* PSBT maps.  A map is a function from its keys to their values. *)

\* PSTMap::insert
PSTMap_insert(self, key, val) ==
    [k \in DOMAIN self \cup {key} |-> IF k = key THEN val ELSE self[k]]

\* GlobalKey::UNSIGNED_TX.into()
UNSIGNED_TX == <<0>>

\* GlobalKey::VERSION.into()
VERSION == <<251>>

\* PSBTGlobal::consistency_checks without the check of the version
consistency_checks_tx_only(self) ==
    IF UNSIGNED_TX \notin DOMAIN self THEN Err(<<"InvalidPSBT">>)
    ELSE Ok

\* PSBTGlobal::consistency_checks
consistency_checks(self) ==
    IF UNSIGNED_TX \notin DOMAIN self THEN Err(<<"InvalidPSBT">>)
    ELSE IF VERSION \notin DOMAIN self THEN Err(<<"InvalidPSBT">>)
    ELSE Ok

\* PSBTGlobal::standard_schema
standard_schema ==
    KVTypeSchema_insert(
        KVTypeSchema_insert(
            KVTypeSchema_insert(KVTypeSchema_default,
                                0, Closure("global::validate_tx")),
            1, Closure("global::validate_xpub")),
        251, Closure("global::validate_version"))

\* PSBTValidate::validate_schema: the errors of the pairs that the
\* predicate registered for their key type rejects; a pair whose key type
\* has no predicate is accepted
schema_errors(self, s) ==
    {Apply(s[key_type_of(k)], k, self[k]).res :
        k \in {x \in DOMAIN self : key_type_of(x) \in DOMAIN s}} \ {Ok}

\* the results a validation with the errors errs can return: it returns
\* the error of the first check that fails, in an order that is not fixed
\* here
results_of(errs) == IF errs = {} THEN {Ok} ELSE errs

\* PSBTValidate::validate for the global map: the consistency checks and
\* the standard schema
PSBTGlobal_validate(self) ==
    results_of(({consistency_checks(self)} \ {Ok})
               \cup schema_errors(self, standard_schema))

\* BitcoinTxIn::unsigned: the input without its script_sig
unsigned(txin) == [txin EXCEPT !.script_sig = ScriptNull]

\* PSBTGlobal::set_tx with the signed inputs left out
set_tx_unsigned_inputs_only(self, t) ==
    PSTMap_insert(self, UNSIGNED_TX,
        SerLegacyTx(LegacyTx_new(t.version,
                                 SelectSeq(t.vin,
                                           LAMBDA i : i.script_sig = ScriptNull),
                                 t.vout, t.locktime)))

\* PSBTGlobal::set_tx: the transaction is rebuilt from its unsigned inputs
\* and its serialization is stored under the key of the unsigned tx
set_tx(self, t) ==
    PSTMap_insert(self, UNSIGNED_TX,
        SerLegacyTx(LegacyTx_new(t.version,
                                 [i \in 1..Len(t.vin) |-> unsigned(t.vin[i])],
                                 t.vout, t.locktime)))

---------------------------------------------------------------------------
(* The extractor.  A PSBT is its global map and one input map per input of
   the unsigned transaction.  A builder holds the parts of the transaction
   it will build. *)

\* Ok(val)
OkOf(val) == [ok |-> TRUE, val |-> val]

\* InputKey::FINALIZED_SCRIPTSIG.into()
FINALIZED_SCRIPTSIG == <<7>>

\* InputKey::FINALIZED_SCRIPT_WITNESS.into()
FINALIZED_SCRIPT_WITNESS == <<8>>

\* PSBTInput::is_finalized
is_finalized(self) ==
    FINALIZED_SCRIPTSIG \in DOMAIN self
        \/ FINALIZED_SCRIPT_WITNESS \in DOMAIN self

\* PSBTInput::finalized_script_sig: the value is the script
finalized_script_sig(self) ==
    IF FINALIZED_SCRIPTSIG \in DOMAIN self
    THEN OkOf(self[FINALIZED_SCRIPTSIG])
    ELSE Err(<<"MissingKey">>)

\* the value that a reader read, as a result
read_result(rd) == IF rd.err = "" THEN OkOf(rd.out[1]) ELSE Err(<<rd.err>>)

\* PSBTInput::finalized_script_witness: the value is the serialized witness
finalized_script_witness(self) ==
    IF FINALIZED_SCRIPT_WITNESS \in DOMAIN self
    THEN read_result(read_witness(self[FINALIZED_SCRIPT_WITNESS], Reader(1)))
    ELSE Err(<<"MissingKey">>)

\* a builder with the version, inputs, outputs and locktime of t and no
\* witness
builder_from(t) ==
    IF ~t.ok THEN t
    ELSE OkOf([version |-> t.val.version, vin |-> t.val.vin,
               vout |-> t.val.vout, witnesses |-> <<>>,
               locktime |-> t.val.locktime])

\* PSBT::tx_builder: a builder from the unsigned transaction of the global
\* map
tx_builder(g) ==
    IF UNSIGNED_TX \notin DOMAIN g THEN Err(<<"MissingKey">>)
    ELSE builder_from(read_result(LegacyTx_deserialize(g[UNSIGNED_TX])))

\* builder.set_script_sig(i, script_sig), i counted from 0
set_script_sig(b, i, script_sig) ==
    [b EXCEPT !.vin[i + 1].script_sig = script_sig]

\* builder.extend_witnesses(witnesses)
extend_witnesses(b, witnesses) ==
    [b EXCEPT !.witnesses = @ \o witnesses]

\* builder.build(): a witness transaction if a witness was set that is
\* not empty, and a legacy transaction otherwise
build(b) ==
    IF \E i \in 1..Len(b.witnesses) : b.witnesses[i] # WitnessNull
    THEN [kind |-> "WitnessTx",
          tx |-> WitnessTransaction_new(b.version, b.vin, b.vout,
                                        b.witnesses, b.locktime)]
    ELSE [kind |-> "LegacyTx",
          tx |-> LegacyTx_new(b.version, b.vin, b.vout, b.locktime)]

\* the builder after the script_sig of input map i (from 0) is inserted,
\* if the map has one
with_script_sig(b, i, script_sig) ==
    IF script_sig.ok THEN set_script_sig(b, i, script_sig.val) ELSE b

\* the builder after the witness of an input map is inserted, or an empty
\* witness if the map has none
with_witness(b, witness) ==
    IF witness.ok THEN extend_witnesses(b, <<witness.val>>)
    ELSE extend_witnesses(b, <<WitnessNull>>)

\* the loop of extract from input map i (from 0) on, in the other
\* direction: the last unfinalized input map is reported
RECURSIVE extract_from_backwards(_, _, _)
extract_from_backwards(maps, i, b) ==
    IF \E j \in 1..Len(maps) : ~is_finalized(maps[j])
    THEN Err(<<"UnfinalizedInput",
               (CHOOSE j \in 1..Len(maps) :
                   /\ ~is_finalized(maps[j])
                   /\ \A k \in (j + 1)..Len(maps) : is_finalized(maps[k])) - 1>>)
    ELSE IF i = Len(maps) THEN OkOf(build(b))
    ELSE extract_from_backwards(maps, i + 1,
             with_witness(
                 with_script_sig(b, i, finalized_script_sig(maps[i + 1])),
                 finalized_script_witness(maps[i + 1])))

\* the loop of extract from input map i (from 0) on, and the build
RECURSIVE extract_from(_, _, _)
extract_from(maps, i, b) ==
    IF i = Len(maps) THEN OkOf(build(b))
    ELSE IF ~is_finalized(maps[i + 1])
    THEN Err(<<"UnfinalizedInput", i>>)
    ELSE extract_from(maps, i + 1,
             with_witness(
                 with_script_sig(b, i, finalized_script_sig(maps[i + 1])),
                 finalized_script_witness(maps[i + 1])))

\* the body of extract after pst.tx_builder(): b is its result
extract_with(maps, b) == IF ~b.ok THEN b ELSE extract_from(maps, 0, b.val)

\* PSBTExtractor::extract for the PSBT with the global map g and the input
\* maps maps
extract(g, maps) == extract_with(maps, tx_builder(g))

---------------------------------------------------------------------------
(* Extended keys.  The curve is a group of prime order CurveOrder: a
   private key is a scalar 1..CurveOrder-1 and a public key is the point
   [point |-> k], k its logarithm, which only the group law uses.  A u32
   index of 2^31 and more (a hardened index) is the 32-bit integer with the
   same bits, which is negative.  An extended key is
   [privkey or pubkey, info, backend], backend telling whether the key has
   a curve backend. *)

CurveOrder == 5

\* index >= 2^31
IsHardened(index) == index < 0

\* Secp256k1Backend::derive_pubkey
backend_derive_pubkey(privkey) == [point |-> privkey]

\* Pubkey::fingerprint: the first bytes of a hash of the public key
fingerprint(pubkey) == (pubkey.point * 3 + 2) % 7

\* HMAC-SHA512 keyed with a chain code: IL is 0..6, so that it can be
\* CurveOrder and more, and IR is a chain code
hmac_sha512(chain_code, data) ==
    [IL |-> (chain_code * 5 + data[1] * 3 + data[2] + (data[3] % 13) + 1) % 7,
     IR |-> (chain_code + data[1] + data[2] * 3 + (data[3] % 13) * 2) % 4]

\* the XKeyInfo of the child at index of a parent with the public key
\* pubkey
child_info(info, pubkey, index, chain_code) ==
    [depth |-> info.depth + 1, parent |-> fingerprint(pubkey),
     index |-> index, chain_code |-> chain_code, hint |-> info.hint]

\* the child private key of self for the HMAC output I
private_child_of(self, index, I) ==
    IF I.IL >= CurveOrder \/ (I.IL + self.privkey) % CurveOrder = 0
    THEN Err(<<"InvalidChildIndex">>)
    ELSE OkOf([privkey |-> (I.IL + self.privkey) % CurveOrder,
               info |-> child_info(self.info,
                                   backend_derive_pubkey(self.privkey),
                                   index, I.IR),
               backend |-> self.backend])

\* DerivePrivateChild::derive_private_child for an extended private key
derive_private_child(self, index) ==
    IF ~self.backend THEN Err(<<"NoBackend">>)
    ELSE private_child_of(self, index,
             hmac_sha512(self.info.chain_code,
                 IF IsHardened(index) THEN <<0, self.privkey, index>>
                 ELSE <<1, backend_derive_pubkey(self.privkey).point, index>>))

\* the child public key of self for the HMAC output I
public_child_of(self, index, I) ==
    IF I.IL >= CurveOrder \/ (I.IL + self.pubkey.point) % CurveOrder = 0
    THEN Err(<<"InvalidChildIndex">>)
    ELSE OkOf([pubkey |-> [point |-> (I.IL + self.pubkey.point) % CurveOrder],
               info |-> child_info(self.info, self.pubkey, index, I.IR),
               backend |-> self.backend])

\* DerivePublicChild::derive_public_child for an extended public key
derive_public_child(self, index) ==
    IF IsHardened(index) THEN Err(<<"HardenedDerivationFailed">>)
    ELSE IF ~self.backend THEN Err(<<"NoBackend">>)
    ELSE public_child_of(self, index,
             hmac_sha512(self.info.chain_code, <<1, self.pubkey.point, index>>))

\* DerivationPath::last_hardened: the position and the value of the last
\* hardened index of a path, if it has one
last_hardened(p) ==
    IF \E i \in 1..Len(p) : IsHardened(p[i])
    THEN Some(p[CHOOSE i \in 1..Len(p) :
                  /\ IsHardened(p[i])
                  /\ \A j \in (i + 1)..Len(p) : ~IsHardened(p[j])])
    ELSE None

\* The evaluation of a path derivation: res is the result so far and calls
\* the indices the child derivation was called with.
Derivation(res) == [res |-> res, calls |-> <<>>]

\* the loop of derive_private_path from the i-th index of p on
RECURSIVE derive_private_from(_, _, _)
derive_private_from(st, p, i) ==
    IF ~st.res.ok \/ i > Len(p) THEN st
    ELSE derive_private_from(
             [res |-> derive_private_child(st.res.val, p[i]),
              calls |-> Append(st.calls, p[i])], p, i + 1)

\* DerivePrivateChild::derive_private_path
derive_private_path(self, p) ==
    IF p = <<>> THEN Derivation(OkOf(self))
    ELSE derive_private_from(Derivation(OkOf(self)), p, 1)

\* the loop of derive_public_path from the i-th index of p on
RECURSIVE derive_public_from(_, _, _)
derive_public_from(st, p, i) ==
    IF ~st.res.ok \/ i > Len(p) THEN st
    ELSE derive_public_from(
             [res |-> derive_public_child(st.res.val, p[i]),
              calls |-> Append(st.calls, p[i])], p, i + 1)

\* DerivePublicChild::derive_public_path without the check of the path
derive_public_path_unchecked(self, p) ==
    IF p = <<>> THEN Derivation(OkOf(self))
    ELSE derive_public_from(Derivation(OkOf(self)), p, 1)

\* DerivePublicChild::derive_public_path that derives the last index only
derive_public_path_last_only(self, p) ==
    IF p = <<>> THEN Derivation(OkOf(self))
    ELSE IF last_hardened(p).some
    THEN Derivation(Err(<<"HardenedDerivationFailed">>))
    ELSE derive_public_from(Derivation(OkOf(self)), p, Len(p))

\* DerivePublicChild::derive_public_path
derive_public_path(self, p) ==
    IF p = <<>> THEN Derivation(OkOf(self))
    ELSE IF last_hardened(p).some
    THEN Derivation(Err(<<"HardenedDerivationFailed">>))
    ELSE derive_public_from(Derivation(OkOf(self)), p, 1)

\* HasBackend::backend
backend(self) == IF self.backend THEN Ok ELSE Err(<<"NoBackend">>)

\* HasBackend::set_backend
set_backend(self) == [self EXCEPT !.backend = TRUE]

\* Secp256k1Backend::sign_digest: a signature names its signer and the
\* digest it signs
backend_sign_digest(privkey, d) ==
    [signer |-> backend_derive_pubkey(privkey).point, digest |-> d]

\* Secp256k1Backend::sign_digest_recoverable
backend_sign_digest_recoverable(privkey, d) ==
    [signer |-> backend_derive_pubkey(privkey).point, digest |-> d,
     recovery_id |-> privkey % 2]

\* Secp256k1Backend::verify_digest
backend_verify_digest(pubkey, d, sig) ==
    IF sig.signer = pubkey.point /\ sig.digest = d THEN Ok
    ELSE Err(<<"BackendError">>)

\* CanDerivePubkey::derive_pubkey
derive_pubkey(self) ==
    IF ~backend(self).ok THEN backend(self)
    ELSE OkOf(backend_derive_pubkey(self.privkey))

\* SigningKey::sign_digest that asks for no backend
sign_digest_without_backend(self, d) ==
    OkOf(backend_sign_digest(self.privkey, d))

\* SigningKey::sign_digest
sign_digest(self, d) ==
    IF ~backend(self).ok THEN backend(self)
    ELSE OkOf(backend_sign_digest(self.privkey, d))

\* SigningKey::sign_digest_recoverable
sign_digest_recoverable(self, d) ==
    IF ~backend(self).ok THEN backend(self)
    ELSE OkOf(backend_sign_digest_recoverable(self.privkey, d))

\* VerifyingKey::verify_digest
verify_digest(self, d, sig) ==
    IF ~backend(self).ok THEN backend(self)
    ELSE backend_verify_digest(self.pubkey, d, sig)

\* the ? operator: the error of a result, or f of its value
AndThen(res, f(_)) == IF res.ok THEN f(res.val) ELSE res

\* XSigning::descendant_sign_digest
descendant_sign_digest(self, p, d) ==
    LET sign(key) == sign_digest(key, d)
    IN  AndThen(derive_private_path(self, p).res, sign)

\* XSigning::descendant_sign_digest_recoverable
descendant_sign_digest_recoverable(self, p, d) ==
    LET sign(key) == sign_digest_recoverable(key, d)
    IN  AndThen(derive_private_path(self, p).res, sign)

\* XVerifying::descendant_verify_digest
descendant_verify_digest(self, p, d, sig) ==
    LET verify(key) == verify_digest(key, d, sig)
    IN  AndThen(derive_public_path(self, p).res, verify)

\* SigningKey::derive_verifying_key for an extended private key
derive_verifying_key(self) ==
    IF ~backend(self).ok THEN backend(self)
    ELSE OkOf([pubkey |-> backend_derive_pubkey(self.privkey),
               info |-> self.info, backend |-> self.backend])

(* Derived keys.  A KeyDerivation is [root, path]: the fingerprint of the
   root key and the path from it. *)

\* KeyDerivation::same_root
KeyDerivation_same_root(self, other) == self.root = other.root

\* KeyDerivation::is_possible_ancestor_of
KeyDerivation_is_possible_ancestor_of(self, other) ==
    /\ KeyDerivation_same_root(self, other)
    /\ Len(self.path) <= Len(other.path)
    /\ SubSeq(other.path, 1, Len(self.path)) = self.path

\* KeyDerivation::path_to_descendant
KeyDerivation_path_to_descendant(self, descendant) ==
    IF KeyDerivation_is_possible_ancestor_of(self, descendant)
    THEN Some(SubSeq(descendant.path, Len(self.path) + 1,
                     Len(descendant.path)))
    ELSE None

\* DerivedKey::same_root
same_root(self, other) ==
    KeyDerivation_same_root(self.derivation, other.derivation)

\* DerivedKey::is_possible_ancestor_of with self and other exchanged
is_possible_ancestor_of_exchanged(self, other) ==
    KeyDerivation_is_possible_ancestor_of(other.derivation, self.derivation)

\* DerivedKey::is_possible_ancestor_of
is_possible_ancestor_of(self, other) ==
    KeyDerivation_is_possible_ancestor_of(self.derivation, other.derivation)

\* DerivedKey::path_to_descendant
path_to_descendant(self, other) ==
    KeyDerivation_path_to_descendant(self.derivation, other.derivation)

---------------------------------------------------------------------------
(* The APDU commands of the Ledger app.  A command is
   [ins, p1, p2, data, response_len]. *)

UNTRUSTED_HASH_TX_INPUT_START == 68
UNTRUSTED_HASH_TX_INPUT_FINALIZE_FULL == 74

\* untrusted_hash_tx_input_start
untrusted_hash_tx_input_start(chunk, first) ==
    [ins |-> UNTRUSTED_HASH_TX_INPUT_START,
     p1 |-> IF first THEN 0 ELSE 128,
     p2 |-> 2, data |-> chunk, response_len |-> 64]

\* untrusted_hash_tx_input_finalize with the flag of untrusted_hash_tx_input_start
untrusted_hash_tx_input_finalize_as_start(chunk, last) ==
    [ins |-> UNTRUSTED_HASH_TX_INPUT_FINALIZE_FULL,
     p1 |-> IF last THEN 0 ELSE 128,
     p2 |-> 0, data |-> chunk, response_len |-> 64]

\* untrusted_hash_tx_input_finalize
untrusted_hash_tx_input_finalize(chunk, last) ==
    [ins |-> UNTRUSTED_HASH_TX_INPUT_FINALIZE_FULL,
     p1 |-> IF last THEN 128 ELSE 0,
     p2 |-> 0, data |-> chunk, response_len |-> 64]

\* slice::chunks: the consecutive chunks of n elements of buf, the last one
\* of what remains
chunks(buf, n) ==
    [k \in 1..((Len(buf) + n - 1) \div n) |->
        SubSeq(buf, (k - 1) * n + 1,
               IF k * n < Len(buf) THEN k * n ELSE Len(buf))]

\* the loop of packetize_vout from the i-th chunk on: peek is none at the
\* last chunk
RECURSIVE finalize_packets(_, _, _)
finalize_packets(cs, i, pkts) ==
    IF i > Len(cs) THEN pkts
    ELSE finalize_packets(cs, i + 1,
             Append(pkts, untrusted_hash_tx_input_finalize(cs[i], i + 1 > Len(cs))))

\* the buffer of packetize_vout
vout_buffer(outs) ==
    write_compact_int(Len(outs))
        \o Flatten([i \in 1..Len(outs) |-> SerTxOut(outs[i])])

\* packetize_vout
packetize_vout(outs) == finalize_packets(chunks(vout_buffer(outs), 50), 1, <<>>)

\* the buffer of packetize_input_for_signing, for the signing script s
signing_buffer(utxo, txin, s) ==
    <<2>> \o SerOutpoint(txin.outpoint) \o write_u64_le(utxo.value) \o s

\* the commands of packetize_input_for_signing for its buffer
start_packets(buf) ==
    [k \in 1..Len(chunks(buf, 50)) |->
        untrusted_hash_tx_input_start(chunks(buf, 50)[k], FALSE)]

---------------------------------------------------------------------------
(* What the variables of each part hold while another part runs. *)

TxIdle ==
    /\ tx = [kind |-> "none", legacy_tx |-> LegacyTxDefault, witnesses |-> <<>>]
    /\ args = NoArgs
    /\ op = "none"
    /\ ret = "none"
    /\ copy_tx = LegacyTxDefault
    /\ writer = <<>>
    /\ digest = <<>>

CodecIdle == wire = <<>> /\ parsed = NotParsed

ScriptIdle == script = <<>> /\ stype = Unclassified

SchemaIdle == schema = <<>> /\ log = <<>> /\ kv = <<>> /\ trace = <<>>

PsbtIdle == global = <<>> /\ psbt = <<>> /\ extracted = <<>>

RoleIdle == output_maps = <<>> /\ created = <<>>

KeyIdle == xkey = <<>> /\ path = <<>> /\ children = <<>>

ApduIdle == buffer = <<>> /\ packets = <<>>

RestIdle == RoleIdle /\ KeyIdle /\ ApduIdle

---------------------------------------------------------------------------
(* The calling program: it constructs one transaction, then asks for one   *)
(* sighash of it.  tx.kind says which type the value has; a LegacyTx is    *)
(* held in tx.legacy_tx with no witnesses.                                 *)

Init ==
    /\ pc = "start"
    /\ tx = [kind |-> "none", legacy_tx |-> LegacyTxDefault, witnesses |-> <<>>]
    /\ args = NoArgs
    /\ op = "none"
    /\ ret = "none"
    /\ copy_tx = LegacyTxDefault
    /\ writer = <<>>
    /\ digest = <<>>
    /\ wire = <<>>
    /\ parsed = NotParsed
    /\ script = <<>>
    /\ stype = Unclassified
    /\ schema = <<>>
    /\ log = <<>>
    /\ kv = <<>>
    /\ trace = <<>>
    /\ global = <<>>
    /\ psbt = <<>>
    /\ extracted = <<>>
    /\ RestIdle

\* let tx = LegacyTx::new(version, vin, vout, locktime)
NewLegacyTx ==
    /\ pc = "start"
    /\ \E h \in Headers, vin \in SeqsUpTo(TxIns, MaxIn), vout \in SeqsUpTo(TxOuts, MaxOut) :
          tx' = [kind |-> "legacy",
                 legacy_tx |-> LegacyTx_new(h[1], vin, vout, h[2]),
                 witnesses |-> <<>>]
    /\ pc' = "ready"
    /\ op' = "LegacyTx::new"
    /\ UNCHANGED <<args, ret, copy_tx, writer, digest>>
    /\ UNCHANGED otherVars

\* let tx = <WitnessTx as Transaction>::new(version, vin, vout, locktime)
NewWitnessTx ==
    /\ pc = "start"
    /\ \E h \in Headers, vin \in SeqsUpTo(TxIns, MaxIn), vout \in SeqsUpTo(TxOuts, MaxOut) :
          LET w == WitnessTx_new(h[1], vin, vout, h[2])
          IN tx' = [kind |-> "witness", legacy_tx |-> w.legacy_tx,
                    witnesses |-> w.witnesses]
    /\ pc' = "ready"
    /\ op' = "WitnessTx::new"
    /\ UNCHANGED <<args, ret, copy_tx, writer, digest>>
    /\ UNCHANGED otherVars

\* let tx = <WitnessTx as WitnessTransaction>::new(version, vin, vout,
\* witnesses, locktime)
NewWitnessTransaction ==
    /\ pc = "start"
    /\ \E h \in Headers, vin \in SeqsUpTo(TxIns, MaxIn), vout \in SeqsUpTo(TxOuts, MaxOut),
          ws \in WitnessVectors :
          LET w == WitnessTransaction_new(h[1], vin, vout, ws, h[2])
          IN tx' = [kind |-> "witness", legacy_tx |-> w.legacy_tx,
                    witnesses |-> w.witnesses]
    /\ pc' = "ready"
    /\ op' = "WitnessTransaction::new"
    /\ UNCHANGED <<args, ret, copy_tx, writer, digest>>
    /\ UNCHANGED otherVars

\* The call returns: its outcome is recorded, and the digest when the caller
\* hashed the preimage (Ok(w.finish())).
Return(name, a, o, hashed) ==
    /\ pc' = "done"
    /\ op' = name
    /\ args' = a
    /\ ret' = o.ret
    /\ copy_tx' = o.copy_tx
    /\ writer' = o.out
    /\ digest' = IF hashed /\ o.ret = "Ok" THEN Hash256(o.out) ELSE <<>>
    /\ UNCHANGED <<tx, otherVars>>

\* tx.write_sighash_preimage(&mut writer, &args) on a LegacyTx
LegacyWriteSighashPreimage ==
    /\ pc = "ready"
    /\ tx.kind = "legacy"
    /\ \E a \in LegacySighashArgs :
          Return("LegacyTx::write_sighash_preimage", a,
                 write_sighash_preimage(tx.legacy_tx, a), FALSE)

\* tx.legacy_sighash(&args) on a WitnessTx: a fresh HashWriter, then
\* write_legacy_sighash_preimage, then finish
WitnessLegacySighash ==
    /\ pc = "ready"
    /\ tx.kind = "witness"
    /\ \E a \in LegacySighashArgs :
          Return("WitnessTx::legacy_sighash", a,
                 write_legacy_sighash_preimage(tx, a), TRUE)

\* tx.witness_sighash(&args) on a WitnessTx: a fresh HashWriter, then
\* write_witness_sighash_preimage, then finish
WitnessSighash ==
    /\ pc = "ready"
    /\ tx.kind = "witness"
    /\ \E a \in WitnessSighashArgs :
          Return("WitnessTx::witness_sighash", a,
                 write_witness_sighash_preimage(tx, a), TRUE)

Next ==
    \/ NewLegacyTx
    \/ NewWitnessTx
    \/ NewWitnessTransaction
    \/ LegacyWriteSighashPreimage
    \/ WitnessLegacySighash
    \/ WitnessSighash

Spec == Init /\ [][Next]_vars

---------------------------------------------------------------------------
(* The codec program: it either constructs a transaction, serializes it    *)
(* and deserializes what was written, or asks for its txid or wtxid; or it *)
(* deserializes bytes it was given and serializes the value it got.        *)

\* the transactions whose encodings are given to the deserializers
WireTxs ==
    {WitnessTransaction_new(h[1], vin, vout, ws, h[2]) :
        h \in Headers, vin \in SeqsUpTo(TxIns, MaxIn),
        vout \in SeqsUpTo(TxOuts, MaxOut), ws \in WitnessVectors}

\* the pairs of bytes put where the marker and the flag stand
WireFlags == {<<0, 0>>, <<1, 1>>, <<1, 0>>, <<0, 2>>, <<255, 1>>}

\* the bytes b with the two bytes after the version replaced by f
with_flag(b, f) == SubSeq(b, 1, 4) \o f \o SubSeq(b, 7, Len(b))

\* The bytes given to the deserializers: witness and legacy encodings, the
\* witness encodings with another marker and flag, encodings cut short
\* (inside the version, inside the flag, before the last byte), and
\* encodings followed by one more byte.
Wires ==
    LET witness == {WitnessTx_serialize(w) : w \in WireTxs}
        legacy == {SerLegacyTx(w.legacy_tx) : w \in WireTxs}
        flagged == {with_flag(b, f) : b \in witness, f \in WireFlags}
        whole == witness \cup legacy \cup flagged
        cut == {SubSeq(b, 1, k) : b \in {WitnessTx_serialize(w) : w \in WireTxs},
                                  k \in {0, 3, 5}}
                  \cup {SubSeq(b, 1, Len(b) - 1) : b \in whole}
        longer == {b \o <<0>> : b \in witness \cup legacy}
    IN whole \cup cut \cup longer

\* the value of type LegacyTx or WitnessTx the caller holds in tx
TxValue ==
    IF tx.kind = "legacy" THEN tx.legacy_tx
    ELSE [legacy_tx |-> tx.legacy_tx, witnesses |-> tx.witnesses]

\* T::deserialize(&mut b, 0) for T the type named by kind
Deserialize(kind, b, next) ==
    LET r == IF kind = "legacy" THEN LegacyTx_deserialize(b)
             ELSE WitnessTx_deserialize(b)
    IN /\ wire' = b
       /\ parsed' = [err |-> r.err,
                     val |-> IF r.err = "" THEN r.out[1] ELSE r.out,
                     pos |-> r.pos, kind |-> kind]
       /\ ret' = IF r.err = "" THEN "Ok" ELSE r.err
       /\ op' = IF kind = "legacy" THEN "LegacyTx::deserialize"
                ELSE "WitnessTx::deserialize"
       /\ pc' = next
       /\ UNCHANGED <<tx, args, copy_tx, writer, digest>>
       /\ UNCHANGED <<scriptVars, schemaVars, psbtVars, restVars>>

\* let parsed = LegacyTx::deserialize(&mut b, 0) on bytes from outside
DeserializeLegacyTx ==
    /\ pc = "start"
    /\ \E b \in Wires : Deserialize("legacy", b, "parsed")

\* let parsed = WitnessTx::deserialize(&mut b, 0) on bytes from outside
DeserializeWitnessTx ==
    /\ pc = "start"
    /\ \E b \in Wires : Deserialize("witness", b, "parsed")

\* The value the caller serializes, its type, and what it wrote.
Serialize(kind, value, next) ==
    /\ writer' = IF kind = "legacy" THEN SerLegacyTx(value)
                 ELSE WitnessTx_serialize(value)
    /\ op' = IF kind = "legacy" THEN "LegacyTx::serialize"
             ELSE "WitnessTx::serialize"
    /\ ret' = "Ok"
    /\ pc' = next
    /\ UNCHANGED <<tx, args, copy_tx, digest, otherVars>>

\* tx.serialize(&mut writer) on the transaction constructed
SerializeTx ==
    /\ pc = "ready"
    /\ Serialize(tx.kind, TxValue, "written")

\* parsed.serialize(&mut writer) on the value deserialized
SerializeParsed ==
    /\ pc = "parsed"
    /\ parsed.err = ""
    /\ Serialize(parsed.kind, parsed.val, "done")

\* T::deserialize(&mut writer, 0) on what tx.serialize wrote
ReadBack ==
    /\ pc = "written"
    /\ Deserialize(tx.kind, writer, "done")

\* tx.txid()
Txid ==
    /\ pc = "ready"
    /\ op' = "txid"
    /\ digest' = IF tx.kind = "legacy" THEN LegacyTx_txid(tx.legacy_tx)
                 ELSE WitnessTx_txid(TxValue)
    /\ ret' = "Ok"
    /\ pc' = "done"
    /\ UNCHANGED <<tx, args, copy_tx, writer, otherVars>>

\* tx.wtxid() on a WitnessTx
Wtxid ==
    /\ pc = "ready"
    /\ tx.kind = "witness"
    /\ op' = "wtxid"
    /\ writer' = WitnessTx_serialize(TxValue)
    /\ digest' = WitnessTx_wtxid(TxValue)
    /\ ret' = "Ok"
    /\ pc' = "done"
    /\ UNCHANGED <<tx, args, copy_tx, otherVars>>

CodecNext ==
    \/ NewLegacyTx
    \/ NewWitnessTx
    \/ NewWitnessTransaction
    \/ DeserializeLegacyTx
    \/ DeserializeWitnessTx
    \/ SerializeTx
    \/ SerializeParsed
    \/ ReadBack
    \/ Txid
    \/ Wtxid

CodecSpec == Init /\ [][CodecNext]_vars

---------------------------------------------------------------------------
(* The classifying program: it holds one script and asks for its type. *)

ScriptInit ==
    /\ pc = "ready"
    /\ script \in Scripts
    /\ stype = Unclassified
    /\ TxIdle /\ CodecIdle /\ SchemaIdle /\ PsbtIdle /\ RestIdle

\* the classification f of the script returns
Classify(name, t) ==
    /\ pc = "ready"
    /\ stype' = t
    /\ op' = name
    /\ pc' = "done"
    /\ UNCHANGED <<tx, args, ret, copy_tx, writer, digest>>
    /\ UNCHANGED <<codecVars, script, schemaVars, psbtVars, restVars>>

\* ScriptPubkey::from(script).standard_type()
StandardType == Classify("ScriptPubkey::standard_type", standard_type(script))

\* Script::from(script).determine_type()
DetermineType == Classify("Script::determine_type", determine_type(script))

ScriptNext == StandardType \/ DetermineType

ScriptSpec == ScriptInit /\ [][ScriptNext]_vars

---------------------------------------------------------------------------
(* The schema program: it builds one KVTypeSchema by insert and remove and
   calls the predicate registered for a key type on one key/value pair.
   log holds, in the order of their insertion, the <<key type, function>>
   pairs inserted and not removed since. *)

MaxInserts == 3

\* a key of n bytes whose key type is t
KeyOf(t, n) == <<t>> \o Payload(n - 1)

SchemaKeyTypes == {1, 6}

SchemaFns ==
    {"global::validate_xpub", "input::validate_bip32_derivations",
     "accept", "reject"}

SchemaKeys == {KeyOf(1, 79), KeyOf(1, 78), KeyOf(6, 34)}

SchemaValues == {Payload(0), Payload(4), Payload(5)}

SchemaInit ==
    /\ pc = "ready"
    /\ schema = KVTypeSchema_default
    /\ log = <<>>
    /\ kv = <<>>
    /\ trace = <<>>
    /\ TxIdle /\ CodecIdle /\ ScriptIdle /\ PsbtIdle /\ RestIdle

\* the entries of a log without those of one key type
Forget(l, t) == LET Kept(e) == e[1] # t IN SelectSeq(l, Kept)

\* schema.insert(key_type, Box::new(f))
SchemaInsert(t, f) ==
    /\ pc = "ready"
    /\ Len(log) < MaxInserts
    /\ schema' = KVTypeSchema_insert(schema, t, Closure(f))
    /\ log' = Append(log, <<t, f>>)
    /\ op' = "KVTypeSchema::insert"
    /\ UNCHANGED <<pc, tx, args, ret, copy_tx, writer, digest, kv, trace>>
    /\ UNCHANGED <<codecVars, scriptVars, psbtVars, restVars>>

\* schema.remove(key_type)
SchemaRemove(t) ==
    /\ pc = "ready"
    /\ schema' = KVTypeSchema_remove(schema, t)
    /\ log' = Forget(log, t)
    /\ op' = "KVTypeSchema::remove"
    /\ UNCHANGED <<pc, tx, args, ret, copy_tx, writer, digest, kv, trace>>
    /\ UNCHANGED <<codecVars, scriptVars, psbtVars, restVars>>

\* (schema.0[&key_type])(&key, &val)
SchemaCall(t, key, val) ==
    /\ pc = "ready"
    /\ t \in DOMAIN schema
    /\ kv' = <<t, key, val>>
    /\ ret' = Apply(schema[t], key, val).res
    /\ trace' = Apply(schema[t], key, val).calls
    /\ op' = "KVPredicate"
    /\ pc' = "done"
    /\ UNCHANGED <<tx, args, copy_tx, writer, digest, schema, log>>
    /\ UNCHANGED <<codecVars, scriptVars, psbtVars, restVars>>

SchemaNext ==
    \/ \E t \in SchemaKeyTypes, f \in SchemaFns : SchemaInsert(t, f)
    \/ \E t \in SchemaKeyTypes : SchemaRemove(t)
    \/ \E t \in SchemaKeyTypes, key \in SchemaKeys, val \in SchemaValues :
           SchemaCall(t, key, val)

SchemaSpec == SchemaInit /\ [][SchemaNext]_vars

---------------------------------------------------------------------------
(* The validating program: it holds one key/value pair and calls one
   validation function of an input or output map on it. *)

ValidatorKeys == {KeyOf(t, n) : t \in {0, 2, 6}, n \in {33, 34, 35}}

ValidatorValues == {Payload(n) : n \in {0, 3, 4, 5, 8, 12}}

ValidatorInit ==
    /\ pc = "ready"
    /\ schema = KVTypeSchema_default
    /\ log = <<>>
    /\ kv \in {<<key_type_of(key), key, val>> :
                   key \in ValidatorKeys, val \in ValidatorValues}
    /\ trace = <<>>
    /\ TxIdle /\ CodecIdle /\ ScriptIdle /\ PsbtIdle /\ RestIdle

\* the validation function f returns
Validated(f) ==
    /\ pc = "ready"
    /\ ret' = Call(f, kv[2], kv[3])
    /\ op' = f
    /\ pc' = "done"
    /\ UNCHANGED <<tx, args, copy_tx, writer, digest>>
    /\ UNCHANGED <<codecVars, scriptVars, schemaVars, psbtVars, restVars>>

\* input::validate_bip32_derivations(&key, &val)
InputValidateBip32Derivations == Validated("input::validate_bip32_derivations")

\* output::validate_bip32_derivations(&key, &val)
OutputValidateBip32Derivations ==
    Validated("output::validate_bip32_derivations")

ValidatorNext == InputValidateBip32Derivations \/ OutputValidateBip32Derivations

ValidatorSpec == ValidatorInit /\ [][ValidatorNext]_vars

---------------------------------------------------------------------------
(* The global-map program: it fills one PSBT global map and validates it. *)

\* the encoding of a transaction with no input and no output
EmptyTxBytes == SerLegacyTx(LegacyTxDefault)

GlobalKeys ==
    {UNSIGNED_TX, VERSION, <<0, 0>>, KeyOf(1, 79), KeyOf(1, 78), <<9>>}

GlobalValues == {EmptyTxBytes, Payload(4), Payload(3), Payload(0)}

GlobalInit ==
    /\ pc = "ready"
    /\ global = <<>>
    /\ psbt = <<>>
    /\ extracted = <<>>
    /\ TxIdle /\ CodecIdle /\ ScriptIdle /\ SchemaIdle /\ RestIdle

\* global.insert(key, val)
GlobalInsert(key, val) ==
    /\ pc = "ready"
    /\ global' = PSTMap_insert(global, key, val)
    /\ op' = "PSBTGlobal::insert"
    /\ UNCHANGED <<pc, tx, args, ret, copy_tx, writer, digest, psbt, extracted>>
    /\ UNCHANGED <<codecVars, scriptVars, schemaVars, restVars>>

\* global.validate()
GlobalValidate ==
    /\ pc = "ready"
    /\ ret' \in PSBTGlobal_validate(global)
    /\ op' = "PSBTGlobal::validate"
    /\ pc' = "done"
    /\ UNCHANGED <<tx, args, copy_tx, writer, digest>>
    /\ UNCHANGED <<codecVars, scriptVars, schemaVars, psbtVars, restVars>>

GlobalNext ==
    \/ \E key \in GlobalKeys, val \in GlobalValues : GlobalInsert(key, val)
    \/ GlobalValidate

GlobalSpec == GlobalInit /\ [][GlobalNext]_vars

---------------------------------------------------------------------------
(* The creating program: it stores a transaction in a global map with
   set_tx or with insert, stores a version, and validates the map. *)

\* transactions of up to MaxIn inputs, signed and unsigned, and one output
SetTxArgs ==
    {LegacyTx_new(2, vin, <<o>>, 523722) :
        vin \in SeqsUpTo(TxIns, MaxIn),
        o \in {t \in TxOuts : t.script_pubkey[1] = 169}}

\* global.set_tx(&t)
GlobalSetTx(t) ==
    /\ pc = "ready"
    /\ tx' = [kind |-> "legacy", legacy_tx |-> t, witnesses |-> <<>>]
    /\ global' = set_tx(global, t)
    /\ op' = "PSBTGlobal::set_tx"
    /\ UNCHANGED <<pc, args, ret, copy_tx, writer, digest, psbt, extracted>>
    /\ UNCHANGED <<codecVars, scriptVars, schemaVars, restVars>>

SetTxNext ==
    \/ \E t \in SetTxArgs : GlobalSetTx(t)
    \/ \E key \in {UNSIGNED_TX, VERSION},
          val \in {SerLegacyTx(t) : t \in SetTxArgs} \cup {<<0, 0, 0, 0>>} :
              GlobalInsert(key, val)
    \/ GlobalValidate

SetTxSpec == GlobalInit /\ [][SetTxNext]_vars

---------------------------------------------------------------------------
(* The extracting program: it holds one PSBT and extracts it. *)

\* the inputs of TxIns without their script_sig
UnsignedTxIns == {[t EXCEPT !.script_sig = ScriptNull] : t \in TxIns}

\* unsigned transactions with up to MaxIn inputs and one output
UnsignedTxs ==
    {LegacyTx_new(2, vin, <<o>>, 523722) :
        vin \in SeqsUpTo(UnsignedTxIns, MaxIn),
        o \in {t \in TxOuts : t.script_pubkey[1] = 169}}

\* the map with the entries of s, a set of <<key, value>> pairs
MapOf(s) == [k \in {e[1] : e \in s} |-> (CHOOSE e \in s : e[1] = k)[2]]

\* input maps: empty, with a partial signature only, and finalized with a
\* script_sig, a witness of two items or of none, or both
InputMaps ==
    {MapOf({}), MapOf({<<KeyOf(2, 34), <<48, 1>>>>})}
    \cup {MapOf(s \cup w) :
            s \in {{}, {<<FINALIZED_SCRIPTSIG, <<71, 48, 1>>>>}},
            w \in {{}, {<<FINALIZED_SCRIPT_WITNESS, SerWitness(WitnessNull)>>},
                   {<<FINALIZED_SCRIPT_WITNESS,
                      SerWitness(<<<<48, 1>>, <<2, 3, 4>>>>)>>}}}

\* a PSBT has a global map with the unsigned transaction and the version,
\* and as many input maps as the transaction has inputs
ExtractInit ==
    /\ pc = "ready"
    /\ \E t \in UnsignedTxs :
          /\ global = MapOf({<<UNSIGNED_TX, SerLegacyTx(t)>>,
                             <<VERSION, <<0, 0, 0, 0>>>>})
          /\ psbt \in [1..Len(t.vin) -> InputMaps]
    /\ extracted = <<>>
    /\ TxIdle /\ CodecIdle /\ ScriptIdle /\ SchemaIdle /\ RestIdle

\* extractor.extract(&pst): the transaction is kept when there is one
Extract ==
    /\ pc = "ready"
    /\ ret' = IF extract(global, psbt).ok THEN Ok ELSE extract(global, psbt)
    /\ extracted' = IF extract(global, psbt).ok
                    THEN <<extract(global, psbt).val>> ELSE extracted
    /\ op' = "PSBTExtractor::extract"
    /\ pc' = "done"
    /\ UNCHANGED <<tx, args, copy_tx, writer, digest, global, psbt>>
    /\ UNCHANGED <<codecVars, scriptVars, schemaVars, restVars>>

ExtractNext == Extract

ExtractSpec == ExtractInit /\ [][ExtractNext]_vars

---------------------------------------------------------------------------
(* The roles: a PSBT is created from a transaction, and then updated,
   signed, finalized, combined with another PSBT and extracted, in any
   order.  global is its global map, psbt its input maps and output_maps
   its output maps. *)

\* keys of an input map: the witness UTXO and a partial signature
WITNESS_UTXO == <<1>>
PARTIAL_SIG == KeyOf(2, 34)

\* the key of the redeem script of an output map
OUT_REDEEM_SCRIPT == <<0>>

\* signatures of two signers
Signatures == {<<48, 1>>, <<48, 2>>}

RoleInit ==
    /\ pc = "start"
    /\ TxIdle /\ CodecIdle /\ ScriptIdle /\ SchemaIdle /\ PsbtIdle /\ RestIdle

\* the other variables a role step leaves alone
RoleFrame ==
    /\ UNCHANGED <<tx, args, copy_tx, writer, digest, extracted, created>>
    /\ UNCHANGED <<codecVars, scriptVars, schemaVars, keyVars, apduVars>>

\* Creator: the PSBT of the transaction t, with its unsigned transaction,
\* version 0, and an empty map for each input and each output
Creator(t) ==
    /\ pc = "start"
    /\ global' = PSTMap_insert(set_tx(<<>>, t), VERSION, <<0, 0, 0, 0>>)
    /\ psbt' = [i \in 1..Len(t.vin) |-> <<>>]
    /\ output_maps' = [i \in 1..Len(t.vout) |-> <<>>]
    /\ created' = set_tx(<<>>, t)[UNSIGNED_TX]
    /\ op' = "Creator"
    /\ ret' = Ok
    /\ pc' = "ready"
    /\ UNCHANGED <<tx, args, copy_tx, writer, digest, extracted>>
    /\ UNCHANGED <<codecVars, scriptVars, schemaVars, keyVars, apduVars>>

\* Updater: input map i gets its witness UTXO, if it has none
UpdaterInput(i, val) ==
    /\ pc = "ready"
    /\ i \in 1..Len(psbt)
    /\ WITNESS_UTXO \notin DOMAIN psbt[i]
    /\ psbt' = [psbt EXCEPT ![i] = PSTMap_insert(@, WITNESS_UTXO, val)]
    /\ op' = "Updater"
    /\ ret' = Ok
    /\ UNCHANGED <<pc, global, output_maps>>
    /\ RoleFrame

\* Updater: output map i gets its redeem script, if it has none
UpdaterOutput(i, val) ==
    /\ pc = "ready"
    /\ i \in 1..Len(output_maps)
    /\ OUT_REDEEM_SCRIPT \notin DOMAIN output_maps[i]
    /\ output_maps' =
          [output_maps EXCEPT ![i] = PSTMap_insert(@, OUT_REDEEM_SCRIPT, val)]
    /\ op' = "Updater"
    /\ ret' = Ok
    /\ UNCHANGED <<pc, global, psbt>>
    /\ RoleFrame

\* Signer: input map i gets a partial signature
Signer(i, sig) ==
    /\ pc = "ready"
    /\ i \in 1..Len(psbt)
    /\ ~is_finalized(psbt[i])
    /\ PARTIAL_SIG \notin DOMAIN psbt[i]
    /\ psbt' = [psbt EXCEPT ![i] = PSTMap_insert(@, PARTIAL_SIG, sig)]
    /\ op' = "Signer"
    /\ ret' = Ok
    /\ UNCHANGED <<pc, global, output_maps>>
    /\ RoleFrame

\* the input map self finalized under key: the key types 0x02 to 0x06 are
\* removed and the script_sig or the witness is written
finalized(self, key) ==
    PSTMap_insert([k \in {x \in DOMAIN self : key_type_of(x) \notin 2..6}
                      |-> self[k]],
                  key,
                  IF key = FINALIZED_SCRIPTSIG THEN self[PARTIAL_SIG]
                  ELSE SerWitness(<<self[PARTIAL_SIG]>>))

\* Finalizer: input map i is finalized with a script_sig or a witness, or
\* reported when it has no signature
Finalizer(i, key) ==
    /\ pc = "ready"
    /\ i \in 1..Len(psbt)
    /\ ~is_finalized(psbt[i])
    /\ IF PARTIAL_SIG \in DOMAIN psbt[i]
       THEN /\ psbt' = [psbt EXCEPT ![i] = finalized(@, key)]
            /\ ret' = Ok
       ELSE /\ psbt' = psbt
            /\ ret' = Err(<<"UnfinalizableInput", i - 1>>)
    /\ op' = "Finalizer"
    /\ UNCHANGED <<pc, global, output_maps>>
    /\ RoleFrame

\* the key-wise union of two maps
MapUnion(a, b) ==
    [k \in DOMAIN a \cup DOMAIN b |-> IF k \in DOMAIN a THEN a[k] ELSE b[k]]

\* two maps give one key different values
Conflict(a, b) == \E k \in DOMAIN a \cap DOMAIN b : a[k] # b[k]

\* Combiner: the PSBT is merged with another one whose global map is g and
\* whose input maps all are m
Combiner(g, m) ==
    /\ pc = "ready"
    /\ IF g[UNSIGNED_TX] # global[UNSIGNED_TX]
       THEN /\ ret' = Err(<<"MismatchedUnsignedTx">>)
            /\ UNCHANGED <<global, psbt>>
       ELSE IF \E i \in 1..Len(psbt) : Conflict(psbt[i], m)
       THEN /\ ret' = Err(<<"MismatchedValue">>)
            /\ UNCHANGED <<global, psbt>>
       ELSE /\ ret' = Ok
            /\ global' = MapUnion(global, g)
            /\ psbt' = [i \in 1..Len(psbt) |-> MapUnion(psbt[i], m)]
    /\ op' = "Combiner"
    /\ UNCHANGED <<pc, output_maps>>
    /\ RoleFrame

\* the global maps of the other PSBTs: that of this one with an xpub entry,
\* and that of a PSBT of another transaction
OtherGlobals ==
    {PSTMap_insert(global, KeyOf(1, 79), Payload(4)),
     PSTMap_insert(global, UNSIGNED_TX, EmptyTxBytes \o <<0>>)}

\* transactions of one and of two inputs, the first input signed
RoleTxs ==
    {LegacyTx_new(2, vin, <<o>>, 523722) :
        vin \in {v \in SeqsUpTo(TxIns, 2) :
                    Len(v) > 0 /\ v[1].script_sig # ScriptNull
                               /\ \A i \in 2..Len(v) : v[i] # v[1]},
        o \in {t \in TxOuts : t.script_pubkey[1] = 169}}

RoleNext ==
    \/ \E t \in RoleTxs : Creator(t)
    \/ \E i \in 1..Len(psbt) : UpdaterInput(i, Payload(9))
    \/ UpdaterOutput(1, Payload(3))
    \/ \E i \in 1..Len(psbt), sig \in Signatures : Signer(i, sig)
    \/ \E i \in 1..Len(psbt),
          key \in {FINALIZED_SCRIPTSIG, FINALIZED_SCRIPT_WITNESS} :
              Finalizer(i, key)
    \/ \E g \in OtherGlobals, sig \in Signatures :
           Combiner(g, MapOf({<<PARTIAL_SIG, sig>>}))
    \/ Extract

RoleSpec == RoleInit /\ [][RoleNext]_vars

---------------------------------------------------------------------------
(* Extended keys: a program makes a root key without a backend, gives it a
   backend, and calls one operation of the key.  path is the path of the
   call, children the indices the child derivation was called with. *)

\* the first hardened index, 2^31
HardenedZero == -2147483647 - 1

ChildIndices == {0, 1, HardenedZero}

MaxPath == 3

Paths == SeqsUpTo(ChildIndices, MaxPath)

Digests == {1, 2}

RootInfo(chain_code) ==
    [depth |-> 0, parent |-> 0, index |-> 0, chain_code |-> chain_code,
     hint |-> "Legacy"]

XPrivs ==
    {[privkey |-> k, info |-> RootInfo(c), backend |-> FALSE] :
        k \in 1..(CurveOrder - 1), c \in {0, 1}}

XPubs ==
    {[pubkey |-> [point |-> k], info |-> RootInfo(c), backend |-> FALSE] :
        k \in 1..(CurveOrder - 1), c \in {0, 1}}

\* the signatures of the digests by the keys
KeySignatures == {backend_sign_digest(k, d) : k \in 1..(CurveOrder - 1), d \in Digests}

IsXPriv(key) == "privkey" \in DOMAIN key

KeyInit ==
    /\ pc = "ready"
    /\ TxIdle /\ CodecIdle /\ ScriptIdle /\ SchemaIdle /\ PsbtIdle
    /\ RoleIdle /\ ApduIdle
    /\ xkey \in XPrivs \union XPubs
    /\ path = <<>>
    /\ children = <<>>

\* the other variables a key operation leaves alone
KeyFrame ==
    /\ UNCHANGED <<tx, args, copy_tx, writer, digest>>
    /\ UNCHANGED <<codecVars, scriptVars, schemaVars, psbtVars, roleVars, apduVars>>

\* a call of the key that returns res
KeyCall(name, p, res, calls) ==
    /\ pc = "ready"
    /\ pc' = "done"
    /\ op' = name
    /\ path' = p
    /\ ret' = res
    /\ children' = calls
    /\ UNCHANGED xkey
    /\ KeyFrame

SetBackend ==
    /\ pc = "ready"
    /\ xkey' = set_backend(xkey)
    /\ op' = "set_backend"
    /\ UNCHANGED <<pc, ret, path, children>>
    /\ KeyFrame

DerivePrivatePathOf(p, st) ==
    KeyCall("derive_private_path", p, st.res, st.calls)

DerivePrivatePath(p) ==
    /\ IsXPriv(xkey)
    /\ DerivePrivatePathOf(p, derive_private_path(xkey, p))

DerivePublicPathOf(p, st) ==
    KeyCall("derive_public_path", p, st.res, st.calls)

DerivePublicPath(p) ==
    /\ ~IsXPriv(xkey)
    /\ DerivePublicPathOf(p, derive_public_path(xkey, p))

DerivePubkey ==
    /\ IsXPriv(xkey)
    /\ KeyCall("derive_pubkey", <<>>, derive_pubkey(xkey), <<>>)

SignDigest(d) ==
    /\ IsXPriv(xkey)
    /\ KeyCall("sign_digest", <<>>, sign_digest(xkey, d), <<>>)

SignDigestRecoverable(d) ==
    /\ IsXPriv(xkey)
    /\ KeyCall("sign_digest_recoverable", <<>>,
               sign_digest_recoverable(xkey, d), <<>>)

VerifyDigest(d, sig) ==
    /\ ~IsXPriv(xkey)
    /\ KeyCall("verify_digest", <<>>, verify_digest(xkey, d, sig), <<>>)

DescendantSignDigest(p, d) ==
    /\ IsXPriv(xkey)
    /\ KeyCall("descendant_sign_digest", p,
               descendant_sign_digest(xkey, p, d), <<>>)

DescendantSignDigestRecoverable(p, d) ==
    /\ IsXPriv(xkey)
    /\ KeyCall("descendant_sign_digest_recoverable", p,
               descendant_sign_digest_recoverable(xkey, p, d), <<>>)

DescendantVerifyDigest(p, d, sig) ==
    /\ ~IsXPriv(xkey)
    /\ KeyCall("descendant_verify_digest", p,
               descendant_verify_digest(xkey, p, d, sig), <<>>)

KeyNext ==
    \/ SetBackend
    \/ \E p \in Paths : DerivePrivatePath(p)
    \/ \E p \in Paths : DerivePublicPath(p)
    \/ DerivePubkey
    \/ \E d \in Digests : SignDigest(d)
    \/ \E d \in Digests : SignDigestRecoverable(d)
    \/ \E d \in Digests, sig \in KeySignatures : VerifyDigest(d, sig)
    \/ \E p \in Paths, d \in Digests : DescendantSignDigest(p, d)
    \/ \E p \in Paths, d \in Digests : DescendantSignDigestRecoverable(p, d)
    \/ \E p \in Paths, d \in Digests, sig \in KeySignatures :
           DescendantVerifyDigest(p, d, sig)

KeySpec == KeyInit /\ [][KeyNext]_vars

---------------------------------------------------------------------------
(* Derived keys: a program holds two derived keys and asks how one descends
   from the other. *)

MaxDerivation == 2

RootFingerprints == {1, 2}

DerivedKeys ==
    {[key |-> "key", derivation |-> [root |-> r, path |-> p]] :
        r \in RootFingerprints, p \in SeqsUpTo(ChildIndices, MaxDerivation)}

DerivedInit ==
    /\ pc = "ready"
    /\ TxIdle /\ CodecIdle /\ ScriptIdle /\ SchemaIdle /\ PsbtIdle
    /\ RoleIdle /\ ApduIdle
    /\ xkey \in [self : DerivedKeys, other : DerivedKeys]
    /\ path = <<>>
    /\ children = <<>>

DerivedCall(name, res) ==
    /\ pc = "ready"
    /\ pc' = "done"
    /\ op' = name
    /\ ret' = res
    /\ UNCHANGED keyVars
    /\ KeyFrame

SameRoot == DerivedCall("same_root", [is |-> same_root(xkey.self, xkey.other)])

IsPossibleAncestorOf ==
    DerivedCall("is_possible_ancestor_of",
                [is |-> is_possible_ancestor_of(xkey.self, xkey.other)])

PathToDescendant ==
    DerivedCall("path_to_descendant",
                path_to_descendant(xkey.self, xkey.other))

DerivedNext == SameRoot \/ IsPossibleAncestorOf \/ PathToDescendant

DerivedSpec == DerivedInit /\ [][DerivedNext]_vars

---------------------------------------------------------------------------
(* The Ledger app: a program asks for the commands of the outputs of a
   transaction, or for those of an input to sign.  args holds what it
   passes, buffer the bytes the function collects, packets its commands. *)

MaxPacketOuts == 2

\* script lengths that put the end of the buffer before, at and after the
\* end of a chunk
PacketScripts == {Payload(n) : n \in {0, 5, 22, 40, 41, 91}}

PacketOuts ==
    {[value |-> v, script_pubkey |-> s] :
        v \in {<<54131, 1, 0, 0>>, <<0, 0, 4096, 0>>}, s \in PacketScripts}

\* a UTXO and its signing script, which a script-hash UTXO without a spend
\* script does not have
PacketUtxos ==
    {[value |-> <<0, 0, 4096, 0>>, signing_script |-> s] :
        s \in {Some(x) : x \in PacketScripts} \union {None}}

PacketTxIns ==
    {[outpoint |-> [txid |-> Payload(32), idx |-> i], script_sig |-> <<>>,
      sequence |-> 16777214] : i \in {0, 1}}

ApduInit ==
    /\ pc = "ready"
    /\ TxIdle /\ CodecIdle /\ ScriptIdle /\ SchemaIdle /\ PsbtIdle
    /\ RoleIdle /\ KeyIdle /\ ApduIdle

ApduFrame ==
    /\ pc' = "done"
    /\ UNCHANGED <<tx, copy_tx, writer, digest>>
    /\ UNCHANGED <<codecVars, scriptVars, schemaVars, psbtVars, roleVars, keyVars>>

PacketizeVout(outs) ==
    /\ pc = "ready"
    /\ op' = "packetize_vout"
    /\ args' = [outputs |-> outs]
    /\ buffer' = vout_buffer(outs)
    /\ packets' = packetize_vout(outs)
    /\ ret' = "Ok"
    /\ ApduFrame

\* utxo.signing_script().unwrap() panics when there is no signing script
PacketizeInputForSigning(utxo, txin) ==
    /\ pc = "ready"
    /\ op' = "packetize_input_for_signing"
    /\ args' = [utxo |-> utxo, txin |-> txin]
    /\ IF utxo.signing_script.some
       THEN /\ buffer' = signing_buffer(utxo, txin, utxo.signing_script.data)
            /\ packets' = start_packets(buffer')
            /\ ret' = "Ok"
       ELSE /\ buffer' = <<2>> \o SerOutpoint(txin.outpoint)
                              \o write_u64_le(utxo.value)
            /\ packets' = <<>>
            /\ ret' = "Panic"
    /\ ApduFrame

ApduNext ==
    \/ \E outs \in SeqsUpTo(PacketOuts, MaxPacketOuts) : PacketizeVout(outs)
    \/ \E utxo \in PacketUtxos, txin \in PacketTxIns :
           PacketizeInputForSigning(utxo, txin)

ApduSpec == ApduInit /\ [][ApduNext]_vars

---------------------------------------------------------------------------
(* Vocabulary of the properties. *)

\* the last call wrote a legacy preimage (on a LegacyTx or a WitnessTx)
IsLegacyCall ==
    op \in {"LegacyTx::write_sighash_preimage", "WitnessTx::legacy_sighash"}

\* the last call wrote a BIP143 preimage
IsWitnessCall == op = "WitnessTx::witness_sighash"

IsSighashCall == IsLegacyCall \/ IsWitnessCall

IsSingle(flag) == flag \in {SIGHASH_SINGLE, SIGHASH_SINGLE_ACP}

IsNone(flag) == flag \in {SIGHASH_NONE, SIGHASH_NONE_ACP}

\* the transaction the call was made on
Original == tx.legacy_tx

\* 32 zero bytes, written out
Zero32 ==
    <<0, 0, 0, 0, 0, 0, 0, 0, 0, 0, 0, 0, 0, 0, 0, 0,
      0, 0, 0, 0, 0, 0, 0, 0, 0, 0, 0, 0, 0, 0, 0, 0>>

\* where the input at args.index stands in the serialized vin
SignedPos == IF IsACP(args.sighash_flag) THEN 1 ELSE args.index + 1

\* the length of the length-prefixed prevout script
ScriptCodeLen == Len(SerScript(args.prevout_script))

---------------------------------------------------------------------------
(* Properties. *)

\* C1: for every transaction and every index >= outputs.len(), a legacy or
\* BIP143 sighash with flag SINGLE or SINGLE|ACP returns SighashSingleBug:
\* nothing is written and no digest is produced.
C1_SingleOutOfRangeIsSighashSingleBug ==
    (IsSighashCall /\ IsSingle(args.sighash_flag)
        /\ args.index >= Len(Original.vout))
    => (ret = "SighashSingleBug" /\ writer = <<>> /\ digest = <<>>)

\* C1 witness: the scenario of one input and one output, SINGLE asked at
\* index 1 through the BIP143 writer.
C1_Witness ==
    /\ IsWitnessCall
    /\ Len(Original.vin) = 1 /\ Len(Original.vout) = 1
    /\ args.sighash_flag = SIGHASH_SINGLE /\ args.index = 1
    /\ ret = "SighashSingleBug"

\* C2: for every transaction, index and prevout script, a legacy or BIP143
\* sighash with flag NONE or NONE|ACP returns NoneUnsupported, whatever the
\* index is: the refusal comes before the SINGLE check and before any use
\* of the index.
C2_NoneIsNoneUnsupported ==
    (IsSighashCall /\ IsNone(args.sighash_flag))
    => (ret = "NoneUnsupported" /\ writer = <<>> /\ digest = <<>>)

\* C2 witness: NONE|ACP through the legacy writer with an index past both
\* the inputs and the outputs.
C2_Witness ==
    /\ IsLegacyCall
    /\ args.sighash_flag = SIGHASH_NONE_ACP
    /\ args.index >= Len(Original.vin) /\ args.index >= Len(Original.vout)
    /\ Len(Original.vin) >= 1
    /\ ret = "NoneUnsupported"

\* C3: sighash computation never panics: for every flag and every input
\* index, also one >= inputs.len(), the preimage writers return Ok or a
\* TxError.
C3_SighashNeverPanics == ret # "Panic"

\* C4: in the transaction serialized for a legacy sighash with a supported
\* flag and index < inputs.len(), every input but the one at index has an
\* empty script_sig, the input at index has the raw bytes of prevout_script
\* as its script_sig, and for flag ALL the outpoints, sequences, outputs,
\* version and locktime are the original ones.  What is written is that
\* transaction's legacy encoding and then the flag as a u32.
C4_LegacyPrepScriptSigs ==
    (IsLegacyCall /\ ret = "Ok" /\ args.index < Len(Original.vin))
    => /\ writer = SerLegacyTx(copy_tx) \o write_u32_le(args.sighash_flag)
       /\ SignedPos \in 1..Len(copy_tx.vin)
       /\ \A i \in 1..Len(copy_tx.vin) :
             i # SignedPos => copy_tx.vin[i].script_sig = <<>>
       /\ copy_tx.vin[SignedPos].script_sig = args.prevout_script
       /\ copy_tx.vin[SignedPos].outpoint = Original.vin[args.index + 1].outpoint
       /\ args.sighash_flag = SIGHASH_ALL =>
             /\ copy_tx.version = Original.version
             /\ copy_tx.locktime = Original.locktime
             /\ copy_tx.vout = Original.vout
             /\ Len(copy_tx.vin) = Len(Original.vin)
             /\ \A i \in 1..Len(Original.vin) :
                   /\ copy_tx.vin[i].outpoint = Original.vin[i].outpoint
                   /\ copy_tx.vin[i].sequence = Original.vin[i].sequence
             /\ writer =
                   write_u32_le(Original.version)
                   \o write_compact_int(Len(Original.vin))
                   \o Flatten([i \in 1..Len(Original.vin) |->
                         SerOutpoint(Original.vin[i].outpoint)
                         \o (IF i = args.index + 1
                             THEN write_compact_int(Len(args.prevout_script))
                                     \o args.prevout_script
                             ELSE <<0>>)
                         \o write_u32_le(Original.vin[i].sequence)])
                   \o SerVout(Original.vout)
                   \o write_u32_le(Original.locktime)
                   \o <<1, 0, 0, 0>>

\* C4 witness: ALL at index 1 of two inputs, the other of which carried a
\* script_sig.
C4_Witness ==
    /\ IsLegacyCall /\ ret = "Ok"
    /\ args.sighash_flag = SIGHASH_ALL /\ args.index = 1
    /\ Len(Original.vin) = 2
    /\ Original.vin[1].script_sig # <<>>
    /\ Len(Original.vout) = 2

\* C5: for a legacy sighash with flag SINGLE or SINGLE|ACP and
\* index < outputs.len(), the serialized transaction has exactly index + 1
\* outputs, the first index of them the null TxOut (value
\* 0xffff_ffff_ffff_ffff, empty script) and the last the original output
\* at index; every input other than the one at index has sequence 0 and
\* the input at index keeps its sequence.
C5_LegacySingle ==
    (IsLegacyCall /\ ret = "Ok" /\ IsSingle(args.sighash_flag))
    => /\ args.index < Len(Original.vout)
       /\ Len(copy_tx.vout) = args.index + 1
       /\ \A i \in 1..args.index :
             /\ copy_tx.vout[i] =
                   [value |-> <<65535, 65535, 65535, 65535>>, script_pubkey |-> <<>>]
             /\ SerTxOut(copy_tx.vout[i]) = <<255, 255, 255, 255, 255, 255, 255, 255, 0>>
       /\ copy_tx.vout[args.index + 1] = Original.vout[args.index + 1]
       /\ \A i \in 1..Len(copy_tx.vin) :
             IF i = SignedPos
             THEN copy_tx.vin[i].sequence = Original.vin[args.index + 1].sequence
             ELSE copy_tx.vin[i].sequence = 0
       /\ ~IsACP(args.sighash_flag) => Len(copy_tx.vin) = Len(Original.vin)
       /\ writer = SerLegacyTx(copy_tx) \o write_u32_le(args.sighash_flag)

\* C5 witness: SINGLE at index 1 of two inputs and two outputs; the other
\* input had a sequence that is not 0.
C5_Witness ==
    /\ IsLegacyCall /\ ret = "Ok"
    /\ args.sighash_flag = SIGHASH_SINGLE /\ args.index = 1
    /\ Len(Original.vin) = 2 /\ Len(Original.vout) = 2
    /\ Original.vin[1].sequence # 0
    /\ Original.vout[1] # TxOutNull

\* C6: for a legacy sighash whose flag has the ANYONECANPAY bit and
\* index < inputs.len(), the serialized transaction has exactly one input:
\* the original input at index with prevout_script as its script_sig and
\* its own sequence (the ACP step comes after the SINGLE step, which would
\* otherwise zero it).
C6_LegacyAnyoneCanPay ==
    (IsLegacyCall /\ IsACP(args.sighash_flag) /\ ~IsNone(args.sighash_flag)
        /\ args.index < Len(Original.vin)
        /\ (IsSingle(args.sighash_flag) => args.index < Len(Original.vout)))
    => /\ ret = "Ok"
       /\ copy_tx.vin =
             <<[outpoint |-> Original.vin[args.index + 1].outpoint,
                script_sig |-> args.prevout_script,
                sequence |-> Original.vin[args.index + 1].sequence]>>
       /\ writer = SerLegacyTx(copy_tx) \o write_u32_le(args.sighash_flag)

\* C6 witness: SINGLE|ACP at index 1 of two inputs, the signed one with a
\* sequence that is not 0.
C6_Witness ==
    /\ IsLegacyCall /\ ret = "Ok"
    /\ args.sighash_flag = SIGHASH_SINGLE_ACP /\ args.index = 1
    /\ Len(Original.vin) = 2
    /\ Original.vin[2].sequence # 0

\* C7: in a BIP143 preimage, hash_prevouts (bytes 4..36) is 32 zero bytes
\* exactly when the flag has the ACP bit, and otherwise the hash of the
\* outpoints of all inputs in order; hash_sequence (bytes 36..68) is 32
\* zero bytes exactly when the flag has the ACP bit or is SINGLE, and
\* otherwise the hash of the 4-byte LE sequences of all inputs in order.
C7_HashPrevoutsAndSequence ==
    (IsWitnessCall /\ ret = "Ok")
    => LET prevouts == SubSeq(writer, 5, 36)
           sequences == SubSeq(writer, 37, 68)
           acp == args.sighash_flag \in {SIGHASH_ALL_ACP, SIGHASH_SINGLE_ACP}
           quiet == acp \/ args.sighash_flag = SIGHASH_SINGLE
       IN /\ (prevouts = Zero32) <=> acp
          /\ ~acp => prevouts =
                Hash256(Flatten([i \in 1..Len(Original.vin) |->
                    Original.vin[i].outpoint.txid
                        \o write_u32_le(Original.vin[i].outpoint.idx)]))
          /\ (sequences = Zero32) <=> quiet
          /\ ~quiet => sequences =
                Hash256(Flatten([i \in 1..Len(Original.vin) |->
                    write_u32_le(Original.vin[i].sequence)]))

\* C7 witness: SINGLE on two inputs, where the prevouts are hashed and the
\* sequences are not.
C7_Witness ==
    /\ IsWitnessCall /\ ret = "Ok"
    /\ args.sighash_flag = SIGHASH_SINGLE
    /\ Len(Original.vin) = 2
    /\ SubSeq(writer, 5, 36) # Zero32
    /\ SubSeq(writer, 37, 68) = Zero32

\* C8: in a BIP143 preimage, hash_outputs is the hash of all serialized
\* outputs in order for ALL and ALL|ACP, and the hash of the serialized
\* output at index for SINGLE and SINGLE|ACP (index < outputs.len()); no
\* preimage is produced in any other case.
C8_HashOutputs ==
    (IsWitnessCall /\ ret = "Ok")
    => LET outputs == SubSeq(writer, 117 + ScriptCodeLen, 148 + ScriptCodeLen)
       IN /\ args.sighash_flag \in {SIGHASH_ALL, SIGHASH_ALL_ACP} =>
                outputs = Hash256(Flatten([i \in 1..Len(Original.vout) |->
                                     SerTxOut(Original.vout[i])]))
          /\ IsSingle(args.sighash_flag) =>
                /\ args.index < Len(Original.vout)
                /\ outputs = Hash256(SerTxOut(Original.vout[args.index + 1]))
          /\ ~(args.sighash_flag \in {SIGHASH_ALL, SIGHASH_ALL_ACP}
                 \/ IsSingle(args.sighash_flag)) => outputs = Zero32

\* C8 witness: SINGLE|ACP at index 1 of two different outputs.
C8_Witness ==
    /\ IsWitnessCall /\ ret = "Ok"
    /\ args.sighash_flag = SIGHASH_SINGLE_ACP /\ args.index = 1
    /\ Len(Original.vout) = 2
    /\ Original.vout[1] # Original.vout[2]

\* C9: every BIP143 preimage written is, in this order, the version (4
\* bytes LE), hash_prevouts (32), hash_sequence (32), the outpoint of the
\* input at index (36), the length-prefixed prevout script, prevout_value
\* (8 LE), the sequence of the input at index (4 LE), hash_outputs (32),
\* the locktime (4 LE) and the flag as a u32 LE: 156 bytes and the
\* length-prefixed script.
C9_WitnessPreimageLayout ==
    (IsWitnessCall /\ ret = "Ok")
    => LET n == ScriptCodeLen
           input == Original.vin[args.index + 1]
           plen == Len(args.prevout_script)
       IN /\ args.index < Len(Original.vin)
          /\ Len(writer) = 156 + n
          /\ n = plen + (IF plen < 253 THEN 1 ELSE 3)
          /\ SubSeq(writer, 1, 4) = write_u32_le(Original.version)
          /\ SubSeq(writer, 5, 36) = hash_prevouts(tx, args.sighash_flag)
          /\ SubSeq(writer, 37, 68) = hash_sequence(tx, args.sighash_flag)
          /\ SubSeq(writer, 69, 100) = input.outpoint.txid
          /\ SubSeq(writer, 101, 104) = write_u32_le(input.outpoint.idx)
          /\ SubSeq(writer, 105, 104 + n - plen) =
                (IF plen < 253 THEN <<plen>>
                 ELSE <<253, plen % 256, plen \div 256>>)
          /\ SubSeq(writer, 105 + n - plen, 104 + n) = args.prevout_script
          /\ SubSeq(writer, 105 + n, 112 + n) = write_u64_le(args.prevout_value)
          /\ SubSeq(writer, 113 + n, 116 + n) = write_u32_le(input.sequence)
          /\ SubSeq(writer, 117 + n, 148 + n) =
                hash_outputs(tx, args.index, args.sighash_flag)
          /\ SubSeq(writer, 149 + n, 152 + n) = write_u32_le(Original.locktime)
          /\ SubSeq(writer, 153 + n, 156 + n) = <<args.sighash_flag, 0, 0, 0>>
          /\ digest = Hash256(writer)

\* C9 witness: a preimage over the 253-byte script, whose prefix takes
\* three bytes.
C9_Witness ==
    /\ IsWitnessCall /\ ret = "Ok"
    /\ Len(args.prevout_script) = 253
    /\ Len(writer) = 156 + 256
    /\ args.sighash_flag = SIGHASH_ALL_ACP

\* C10: every WitnessTx value obtainable through the public interface has
\* as many witnesses as inputs.
C10_WitnessesMatchInputs ==
    tx.kind = "witness" => Len(tx.witnesses) = Len(tx.legacy_tx.vin)

---------------------------------------------------------------------------
(* Properties of the codec. *)

\* the last call serialized the value deserialized from wire
IsReserialized ==
    pc = "done" /\ op \in {"LegacyTx::serialize", "WitnessTx::serialize"}

\* the last call deserialized what tx.serialize wrote
IsReadBack ==
    pc = "done" /\ op \in {"LegacyTx::deserialize", "WitnessTx::deserialize"}

\* C11: for every byte string that deserializes as a LegacyTx (as a
\* WitnessTx), the deserializer reading it to its end, serializing the
\* value read gives the same bytes; and deserializing the serialization of
\* any LegacyTx or WitnessTx value succeeds and gives an equal value.
C11_RoundTrip ==
    /\ (IsReserialized /\ parsed.pos = Len(wire) + 1) => writer = wire
    /\ IsReadBack => (parsed.err = "" /\ parsed.val = TxValue)

\* Support for C11: serializing the value read from an input that was read
\* to its end gives the input.
BytesRoundTrip ==
    (IsReserialized /\ parsed.pos = Len(wire) + 1) => writer = wire

\* Support for C11: a value with one witness for each input is read back
\* equal, and its serialization is read to its end.
ValueRoundTripWhenWitnessesMatch ==
    (IsReadBack /\ (tx.kind = "witness" => Len(tx.witnesses) = Len(tx.legacy_tx.vin)))
    => (parsed.err = "" /\ parsed.val = TxValue /\ parsed.pos = Len(wire) + 1)

\* C12: WitnessTx deserialization of a byte string whose two bytes after
\* the 4-byte version are not 00 01 fails with BadWitnessFlag carrying
\* those two bytes, and every WitnessTx serialization has 00 01 at byte
\* offsets 4 and 5, also when all its witnesses are empty.
C12_BadWitnessFlag ==
    /\ (op = "WitnessTx::deserialize" /\ Len(wire) >= 6
            /\ SubSeq(wire, 5, 6) # <<0, 1>>)
       => (parsed.err = "BadWitnessFlag" /\ ret = "BadWitnessFlag"
              /\ parsed.val = <<wire[5], wire[6]>>)
    /\ op = "WitnessTx::serialize"
       => (Len(writer) >= 6 /\ writer[5] = 0 /\ writer[6] = 1)

\* C12 witness: a witness encoding of a transaction with an input, its
\* flag byte changed to 02 under a good marker, is refused.
C12_Witness ==
    /\ op = "WitnessTx::deserialize"
    /\ Len(wire) > 47
    /\ SubSeq(wire, 5, 6) = <<0, 2>>
    /\ parsed.err = "BadWitnessFlag"
    /\ parsed.val = <<0, 2>>

\* C13: the txid of a WitnessTx is the hash of its legacy serialization
\* (version, vin, vout, locktime; no marker, flag or witnesses): it equals
\* the txid of without_witness(), and a WitnessTx that differs only in its
\* witnesses has the same txid and another serialization, which is what
\* the wtxid hashes.
C13_TxidIgnoresWitnesses ==
    /\ (op = "txid" /\ tx.kind = "witness")
       => /\ digest = Hash256(SerLegacyTx(tx.legacy_tx))
          /\ digest = LegacyTx_txid(without_witness(TxValue))
          /\ \A ws \in WitnessVectors :
                LET other == [TxValue EXCEPT !.witnesses = ws]
                IN /\ WitnessTx_txid(other) = digest
                   /\ ws # tx.witnesses =>
                         WitnessTx_serialize(other) # WitnessTx_serialize(TxValue)
    /\ op = "wtxid"
       => /\ writer = WitnessTx_serialize(TxValue)
          /\ SubSeq(writer, 5, 6) = <<0, 1>>
          /\ digest = Hash256(writer)

\* C13 witness: the txid of a transaction with two inputs and two
\* witnesses, the first of which has stack items.
C13_Witness ==
    /\ op = "txid" /\ tx.kind = "witness"
    /\ Len(tx.legacy_tx.vin) = 2 /\ Len(tx.witnesses) = 2
    /\ tx.witnesses[1] # WitnessNull
    /\ digest = Hash256(SerLegacyTx(tx.legacy_tx))

---------------------------------------------------------------------------
(* Properties of script classification. *)

\* the script is 6a n and then exactly n bytes, n <= 75
IsOpReturn(s) ==
    Len(s) >= 2 /\ s[1] = 106 /\ s[2] <= 75 /\ Len(s) = 2 + s[2]

\* the script is the 25 bytes 76 a9 14 h(20) 88 ac
IsPKH(s) ==
    /\ Len(s) = 25
    /\ s[1] = 118 /\ s[2] = 169 /\ s[3] = 20
    /\ s[24] = 136 /\ s[25] = 172

\* the script is the 23 bytes a9 14 h(20) 87
IsSH(s) == Len(s) = 23 /\ s[1] = 169 /\ s[2] = 20 /\ s[23] = 135

\* the script is the 22 bytes 00 14 h(20)
IsWPKH(s) == Len(s) = 22 /\ s[1] = 0 /\ s[2] = 20

\* the script is the 34 bytes 00 20 h(32)
IsWSH(s) == Len(s) = 34 /\ s[1] = 0 /\ s[2] = 32

\* C14: ScriptPubkey::standard_type returns a ScriptType for a script of
\* every length: OP_RETURN(data) iff the script is 6a n and exactly n
\* bytes with n <= 75, PKH(h) iff it is 76 a9 14 h(20) 88 ac, SH(h) iff it
\* is a9 14 h(20) 87, WPKH(h) iff it is 00 14 h(20), WSH(h) iff it is
\* 00 20 h(32), and NonStandard otherwise; the payload is the exact bytes.
C14_StandardType ==
    op = "ScriptPubkey::standard_type"
    => /\ stype.type \in {"OP_RETURN", "PKH", "SH", "WPKH", "WSH", "NonStandard"}
       /\ stype.type = "OP_RETURN" <=> IsOpReturn(script)
       /\ stype.type = "PKH" <=> IsPKH(script)
       /\ stype.type = "SH" <=> IsSH(script)
       /\ stype.type = "WPKH" <=> IsWPKH(script)
       /\ stype.type = "WSH" <=> IsWSH(script)
       /\ stype.type = "OP_RETURN" =>
             stype.payload = [i \in 1..(Len(script) - 2) |-> script[i + 2]]
       /\ stype.type = "PKH" => stype.payload = [i \in 1..20 |-> script[i + 3]]
       /\ stype.type \in {"SH", "WPKH"} =>
             stype.payload = [i \in 1..20 |-> script[i + 2]]
       /\ stype.type = "WSH" => stype.payload = [i \in 1..32 |-> script[i + 2]]
       /\ stype.type = "NonStandard" => stype.payload = <<>>

\* C14 witness: an OP_RETURN script pushing 76 bytes is NonStandard.
C14_Witness ==
    /\ op = "ScriptPubkey::standard_type"
    /\ Len(script) = 78 /\ script[1] = 106 /\ script[2] = 76
    /\ stype = NonStandard

\* C15: Script::determine_type returns PKH iff the script is the 25 bytes
\* 76 a9 14 <20 bytes> 88 ac (88 ac at offsets 23 and 24), SH iff it is
\* the 23 bytes a9 14 <20 bytes> 87, WPKH iff it is 22 bytes beginning
\* 00 14, WSH iff it is 34 bytes beginning 00 20, and NonStandard for
\* every other script.
C15_DetermineType ==
    op = "Script::determine_type"
    => /\ stype.type = "PKH" <=> IsPKH(script)
       /\ stype.type = "SH" <=> IsSH(script)
       /\ stype.type = "WPKH" <=> IsWPKH(script)
       /\ stype.type = "WSH" <=> IsWSH(script)
       /\ stype.type = "NonStandard" <=>
             ~(IsPKH(script) \/ IsSH(script) \/ IsWPKH(script) \/ IsWSH(script))

---------------------------------------------------------------------------
(* Properties of PSBT schemas. *)

\* the functions inserted for the key type of the call, in insertion order
Inserted ==
    LET Mine(e) == e[1] = kv[1]
        mine == SelectSeq(log, Mine)
    IN  [i \in 1..Len(mine) |-> mine[i][2]]

\* the inserted predicates that reject the pair of the call
Rejecting == {i \in 1..Len(Inserted) : ~Call(Inserted[i], kv[2], kv[3]).ok}

\* C16: after insert was called with p1, then p2, ... for one key type, the
\* predicate registered for it accepts a pair iff every inserted predicate
\* accepts it, evaluates them in insertion order, and returns the error of
\* the first that fails without evaluating the later ones.
C16_InsertComposes ==
    op = "KVPredicate"
    => /\ ret.ok <=> Rejecting = {}
       /\ trace = SubSeq(Inserted, 1, Len(trace))
       /\ ret.ok => trace = Inserted
       /\ ~ret.ok =>
             /\ Len(trace) \in Rejecting
             /\ \A i \in Rejecting : Len(trace) <= i
             /\ ret = Call(Inserted[Len(trace)], kv[2], kv[3])

\* C16 witness: three predicates were inserted for the key type, the first
\* accepts the pair, the second and the third reject it with different
\* errors, and the call returns the error of the second.
C16_Witness ==
    /\ op = "KVPredicate"
    /\ Len(Inserted) = 3
    /\ Rejecting = {2, 3}
    /\ Call(Inserted[2], kv[2], kv[3]) # Call(Inserted[3], kv[2], kv[3])
    /\ Len(trace) = 2
    /\ ret = Call(Inserted[2], kv[2], kv[3])

\* the key of the pair is one a derivation validator expects: its type is
\* 0x06 for an input map and 0x02 for an output map, and it has 34 bytes
IsDerivationKey ==
    /\ kv[2][1] = (IF op = "input::validate_bip32_derivations" THEN 6 ELSE 2)
    /\ Len(kv[2]) = 34

\* C17: the input and output BIP32-derivation validators accept a pair iff
\* the key has the expected key type, the key is exactly 34 bytes, and the
\* value is a 4-byte fingerprint followed by a path whose length is a
\* multiple of 4 (at least 4 bytes, a multiple of 4); a value with no
\* fingerprint is rejected with InvalidBIP32Path.
C17_Bip32Derivations ==
    op \in {"input::validate_bip32_derivations",
            "output::validate_bip32_derivations"}
    => /\ ret.ok <=> /\ IsDerivationKey
                     /\ Len(kv[3]) >= 4
                     /\ Len(kv[3]) % 4 = 0
       /\ IsDerivationKey /\ Len(kv[3]) < 4
              => ret = Err(<<"InvalidBIP32Path">>)

\* What the validators do instead: they accept a pair iff the key is as
\* expected and the length of the value is a multiple of 4, zero included.
Bip32DerivationsAcceptEmptyValue ==
    op \in {"input::validate_bip32_derivations",
            "output::validate_bip32_derivations"}
    => /\ ret.ok <=> IsDerivationKey /\ Len(kv[3]) % 4 = 0
       /\ IsDerivationKey /\ Len(kv[3]) % 4 # 0
              => ret = Err(<<"InvalidBIP32Path">>)


---------------------------------------------------------------------------
(* Properties of the PSBT global map. *)

C18_MissingVersionRejected ==
    /\ op = "PSBTGlobal::validate"
    /\ ret = Err(<<"InvalidPSBT">>)
    /\ DOMAIN global = {<<0>>}
    /\ global[<<0>>] = EmptyTxBytes

---------------------------------------------------------------------------
(* Properties of the extractor. *)

\* the indices (from 0) of the input maps that are not finalized
Unfinalized == {i \in 0..(Len(psbt) - 1) : ~is_finalized(psbt[i + 1])}

\* C19: PSBTExtractor::extract succeeds only when every input map is
\* finalized; if an input map is not finalized it returns
\* UnfinalizedInput(i), i the smallest index of an input map that is not
\* finalized, produces no transaction, and leaves the PSBT unchanged.
C19_UnfinalizedInput ==
    [][op' = "PSBTExtractor::extract" /\ op # op'
       => /\ ret'.ok => Unfinalized = {}
          /\ Unfinalized # {} =>
                /\ \E i \in Unfinalized :
                      /\ \A j \in Unfinalized : i <= j
                      /\ ret' = Err(<<"UnfinalizedInput", i>>)
                /\ extracted' = <<>>
          /\ psbt' = psbt
          /\ global' = global]_vars

\* C19 witness: of two input maps neither is finalized, and extract
\* returned UnfinalizedInput(0) and no transaction.
C19_Witness ==
    /\ op = "PSBTExtractor::extract"
    /\ Unfinalized = {0, 1}
    /\ ret = Err(<<"UnfinalizedInput", 0>>)
    /\ extracted = <<>>

\* the unsigned transaction of the PSBT
UnsignedTx == LegacyTx_deserialize(global[UNSIGNED_TX]).out[1]

\* the input maps that have a finalized witness
WithWitness ==
    {i \in 1..Len(psbt) : FINALIZED_SCRIPT_WITNESS \in DOMAIN psbt[i]}

\* the transaction extracted, without its witnesses
ExtractedLegacy ==
    IF extracted[1].kind = "WitnessTx" THEN extracted[1].tx.legacy_tx
    ELSE extracted[1].tx

\* the returned transaction has the version, locktime, outpoints, sequences
\* and outputs of the unsigned transaction, and input i carries the
\* finalized script_sig of input map i, empty when the map has none
ExtractedFromUnsignedTx ==
    /\ ExtractedLegacy.version = UnsignedTx.version
    /\ ExtractedLegacy.locktime = UnsignedTx.locktime
    /\ ExtractedLegacy.vout = UnsignedTx.vout
    /\ Len(ExtractedLegacy.vin) = Len(UnsignedTx.vin)
    /\ \A i \in 1..Len(psbt) :
          /\ ExtractedLegacy.vin[i].outpoint = UnsignedTx.vin[i].outpoint
          /\ ExtractedLegacy.vin[i].sequence = UnsignedTx.vin[i].sequence
          /\ ExtractedLegacy.vin[i].script_sig =
                IF FINALIZED_SCRIPTSIG \in DOMAIN psbt[i]
                THEN psbt[i][FINALIZED_SCRIPTSIG] ELSE ScriptNull

\* C20: when extract succeeds, the returned transaction has the version,
\* locktime, outpoints, sequences and outputs of the unsigned tx; input i
\* carries input map i's finalized script_sig (empty when the map has
\* none); if at least one input map has a finalized witness the result is
\* a witness transaction with exactly one witness per input in input order
\* (the map's finalized witness, or the empty witness when absent), and if
\* no input map has a finalized witness the result is a legacy transaction.
C20_Extracted ==
    op = "PSBTExtractor::extract" /\ ret.ok
    => /\ ExtractedFromUnsignedTx
       /\ WithWitness # {} =>
             /\ extracted[1].kind = "WitnessTx"
             /\ Len(extracted[1].tx.witnesses) = Len(psbt)
             /\ \A i \in 1..Len(psbt) :
                   extracted[1].tx.witnesses[i] =
                      IF i \in WithWitness
                      THEN finalized_script_witness(psbt[i]).val
                      ELSE WitnessNull
       /\ WithWitness = {} => extracted[1].kind = "LegacyTx"

\* What holds of the transaction extracted: the part of the claim about
\* the unsigned transaction and the script_sigs, and the witnesses under
\* the condition that a finalized witness is not empty.
ExtractedWhenAWitnessIsNotEmpty ==
    op = "PSBTExtractor::extract" /\ ret.ok
    => /\ ExtractedFromUnsignedTx
       /\ (\E i \in WithWitness :
              finalized_script_witness(psbt[i]).val # WitnessNull)
             => /\ extracted[1].kind = "WitnessTx"
                /\ extracted[1].tx.witnesses =
                      [i \in 1..Len(psbt) |->
                          IF i \in WithWitness
                          THEN finalized_script_witness(psbt[i]).val
                          ELSE WitnessNull]
       /\ WithWitness = {} => extracted[1].kind = "LegacyTx"

---------------------------------------------------------------------------
(* Properties of the unsigned transaction of a PSBT. *)

\* the value under the key of the unsigned tx, read as a LegacyTx
StoredTx == LegacyTx_deserialize(global[UNSIGNED_TX])

\* the value under the key of the unsigned tx is a serialized transaction,
\* read to its end
StoredIsTx ==
    /\ UNSIGNED_TX \in DOMAIN global
    /\ StoredTx.err = ""
    /\ StoredTx.pos = Len(global[UNSIGNED_TX]) + 1

\* every script_sig of the stored transaction is empty
StoredIsUnsigned ==
    \A i \in 1..Len(StoredTx.out[1].vin) :
        StoredTx.out[1].vin[i].script_sig = ScriptNull

\* after set_tx(t) the stored transaction has t's version, outpoints,
\* sequences, outputs and locktime, and all its script_sigs are empty
SetTxStoresUnsigned ==
    op = "PSBTGlobal::set_tx"
    => /\ StoredIsTx
       /\ StoredIsUnsigned
       /\ StoredTx.out[1].version = tx.legacy_tx.version
       /\ StoredTx.out[1].locktime = tx.legacy_tx.locktime
       /\ StoredTx.out[1].vout = tx.legacy_tx.vout
       /\ Len(StoredTx.out[1].vin) = Len(tx.legacy_tx.vin)
       /\ \A i \in 1..Len(tx.legacy_tx.vin) :
             /\ StoredTx.out[1].vin[i].outpoint = tx.legacy_tx.vin[i].outpoint
             /\ StoredTx.out[1].vin[i].sequence = tx.legacy_tx.vin[i].sequence

\* C21: the value stored under global key 0x00 is always a non-segwit
\* serialization in which every script_sig is empty: after set_tx(tx) the
\* stored transaction has tx's version, outpoints, sequences, outputs and
\* locktime with all script_sigs empty, and a global map whose 0x00 value
\* is a transaction with a script_sig that is not empty does not pass
\* validation.
C21_UnsignedTxStored ==
    /\ SetTxStoresUnsigned
    /\ op = "PSBTGlobal::validate" /\ StoredIsTx /\ ~StoredIsUnsigned
          => ~ret.ok

\* a set_tx of a transaction with a signed input has happened
SetTxOfSignedTx ==
    /\ op = "PSBTGlobal::set_tx"
    /\ \E i \in 1..Len(tx.legacy_tx.vin) :
          tx.legacy_tx.vin[i].script_sig # ScriptNull

\* C22: in every PSBT state reachable from the Creator through Updater,
\* Signer, Finalizer, Combiner and Extractor steps, the unsigned-tx bytes
\* under global key 0x00 are those the Creator stored, the number of input
\* maps is the number of inputs of the unsigned tx, and the number of
\* output maps is its number of outputs.
C22_RolesKeepUnsignedTx ==
    pc # "start"
    => /\ StoredIsTx
       /\ global[UNSIGNED_TX] = created
       /\ Len(psbt) = Len(StoredTx.out[1].vin)
       /\ Len(output_maps) = Len(StoredTx.out[1].vout)

\* C22 witness: a PSBT created from a transaction with a signed input was
\* updated, combined and finalized, and a transaction was extracted from it.
C22_Witness ==
    /\ op = "PSBTExtractor::extract"
    /\ ret.ok
    /\ Len(psbt) = 2
    /\ KeyOf(1, 79) \in DOMAIN global
    /\ WITNESS_UTXO \in DOMAIN psbt[1]
    /\ FINALIZED_SCRIPTSIG \in DOMAIN psbt[1]
    /\ FINALIZED_SCRIPT_WITNESS \in DOMAIN psbt[2]
    /\ OUT_REDEEM_SCRIPT \in DOMAIN output_maps[1]
    /\ created # <<>>



---------------------------------------------------------------------------
\* a path with a hardened index
HasHardened(p) == \E i \in 1..Len(p) : IsHardened(p[i])

\* C23: derive_public_path of a path with a hardened index at any position
\* returns HardenedDerivationFailed, and the public child derivation is not
\* called at all.
C23_HardenedPublicPath ==
    (pc = "done" /\ op = "derive_public_path" /\ HasHardened(path)) =>
        /\ ret = Err(<<"HardenedDerivationFailed">>)
        /\ children = <<>>

\* a public path whose last index only is hardened, for a key with a
\* backend, has failed
C23_Witness ==
    /\ pc = "done" /\ op = "derive_public_path"
    /\ xkey.backend
    /\ Len(path) = 3
    /\ ~IsHardened(path[1]) /\ ~IsHardened(path[2]) /\ IsHardened(path[3])
    /\ ret = Err(<<"HardenedDerivationFailed">>)
    /\ children = <<>>

\* the extended public key of an extended private key with a backend
XPubOf(key) == derive_verifying_key(key).val

\* C24: for a private key and a path of unhardened indices, one index or
\* more, whose private derivation succeeds, the public derivation from the
\* public key of the parent gives the public key of the derived private
\* key: the same key, chain code, depth, parent fingerprint, index and hint.
C24_DerivationsCommute ==
    (/\ pc = "done" /\ op = "derive_private_path"
     /\ path # <<>> /\ ~HasHardened(path)
     /\ ret.ok) =>
        derive_public_path(XPubOf(xkey), path).res = OkOf(XPubOf(ret.val))

\* a private derivation of three unhardened indices has succeeded, and the
\* public derivation gives its public key
C24_Witness ==
    /\ pc = "done" /\ op = "derive_private_path"
    /\ Len(path) = 3 /\ ~HasHardened(path)
    /\ ret.ok
    /\ ret.val.info.depth = 3
    /\ derive_public_path(XPubOf(xkey), path).res = OkOf(XPubOf(ret.val))

---------------------------------------------------------------------------
\* the path a is a prefix of the path b
IsPrefixOf(a, b) == Len(a) <= Len(b) /\ \A i \in 1..Len(a) : a[i] = b[i]

\* a is an ancestor of b: the same root fingerprint, and a's path is a
\* prefix of b's
Ancestor(a, b) ==
    /\ a.derivation.root = b.derivation.root
    /\ IsPrefixOf(a.derivation.path, b.derivation.path)

\* C25: is_possible_ancestor_of(a, b) is true exactly when a and b have the
\* same root fingerprint and a's path is a prefix of b's; path_to_descendant
\* is then Some(s) with a.path ++ s = b.path, and None otherwise; the
\* relation is reflexive and transitive, and the path from a key to itself
\* is empty.
C25_Ancestors ==
    /\ (pc = "done" /\ op = "is_possible_ancestor_of") =>
          /\ ret.is = Ancestor(xkey.self, xkey.other)
          /\ (xkey.self = xkey.other) => ret.is
          /\ \A c \in DerivedKeys :
                (ret.is /\ is_possible_ancestor_of(xkey.other, c)) =>
                    is_possible_ancestor_of(xkey.self, c)
    /\ (pc = "done" /\ op = "path_to_descendant") =>
          /\ ret.some = Ancestor(xkey.self, xkey.other)
          /\ ret.some =>
                xkey.self.derivation.path \o ret.data = xkey.other.derivation.path
          /\ ~ret.some => ret = None
          /\ (xkey.self = xkey.other) => ret = Some(<<>>)

\* the path from a key that is not a root to a descendant of it has been
\* asked for, and is not empty
C25_Witness ==
    /\ pc = "done" /\ op = "path_to_descendant"
    /\ xkey.self.derivation.path # <<>>
    /\ ret.some /\ ret.data # <<>>
    /\ xkey.self.derivation.path \o ret.data = xkey.other.derivation.path

---------------------------------------------------------------------------
PathOps == {"derive_private_path", "derive_public_path"}

\* the result of the path derivation name of the key for the path p
PathOf(name, key, p) ==
    IF name = "derive_private_path" THEN derive_private_path(key, p).res
    ELSE derive_public_path(key, p).res

\* the result of the child derivation that name folds
ChildOf(name, key, index) ==
    IF name = "derive_private_path" THEN derive_private_child(key, index)
    ELSE derive_public_child(key, index)

\* the path derivation of q from the key of the result first, or the error
\* of first
Followed(first, name, q) ==
    IF first.ok THEN PathOf(name, first.val, q) ELSE first

\* the result of a path derivation is that of the fold of the child
\* derivation: self for the empty path, the child for a path of one index,
\* the derivation of p followed by that of q for the path p ++ q, and an
\* error is that of the first child derivation that fails
IsFold ==
    /\ path = <<>> => ret = OkOf(xkey)
    /\ Len(path) = 1 => ret = ChildOf(op, xkey, path[1])
    /\ \A k \in 0..Len(path) :
          ret = Followed(PathOf(op, xkey, SubSeq(path, 1, k)), op,
                         SubSeq(path, k + 1, Len(path)))
    /\ ~ret.ok =>
          \E k \in 1..Len(path) :
              /\ PathOf(op, xkey, SubSeq(path, 1, k - 1)).ok
              /\ ret = ChildOf(op, PathOf(op, xkey, SubSeq(path, 1, k - 1)).val,
                               path[k])

\* C26: as the claim states it, path derivation, private or public, is a
\* left-to-right fold of child derivation: self for the empty path, p
\* followed by q equals p ++ q, and the error of a failing child derivation
\* is returned.
C26_PathIsFold ==
    (pc = "done" /\ op \in PathOps) => IsFold

\* C26: path derivation is the left-to-right fold of child derivation for
\* every private path and every public path without a hardened index; a
\* public path with a hardened index returns HardenedDerivationFailed,
\* whatever the child derivations before the hardened index would return.
C26_PathIsFoldUnlessHardened ==
    (pc = "done" /\ op \in PathOps) =>
        IF op = "derive_public_path" /\ HasHardened(path)
        THEN ret = Err(<<"HardenedDerivationFailed">>)
        ELSE IsFold

\* a public derivation of three unhardened indices has failed at the second
\* index, for a key with a backend
C26_Witness ==
    /\ pc = "done" /\ op = "derive_public_path"
    /\ xkey.backend
    /\ Len(path) = 3 /\ ~HasHardened(path)
    /\ children = SubSeq(path, 1, 2)
    /\ ret = Err(<<"InvalidChildIndex">>)

---------------------------------------------------------------------------
\* the operations of a key that ask for its backend
BackendOps ==
    {"derive_pubkey", "sign_digest", "sign_digest_recoverable",
     "verify_digest", "descendant_sign_digest",
     "descendant_sign_digest_recoverable", "descendant_verify_digest"}

\* an operation of a key without a backend has returned an error
FailsWithoutBackend ==
    (pc = "done" /\ op \in BackendOps /\ ~xkey.backend) => ~ret.ok

\* a step of set_backend changes the backend of the key and nothing else
SetBackendOnly ==
    (xkey' # xkey) => xkey' = [xkey EXCEPT !.backend = TRUE]

\* the result of the operation op of the key with its backend: that of
\* the backend for the key, or for its descendant at the path when the
\* derivation succeeds, and the error of the derivation otherwise
WithBackend ==
    /\ op \in {"derive_pubkey", "sign_digest", "sign_digest_recoverable"}
          => ret.ok
    /\ op = "verify_digest" => ret \in {Ok, Err(<<"BackendError">>)}
    /\ op \in {"descendant_sign_digest", "descendant_sign_digest_recoverable"}
          => IF derive_private_path(xkey, path).res.ok THEN ret.ok
             ELSE ret = derive_private_path(xkey, path).res
    /\ op = "descendant_verify_digest"
          => IF derive_public_path(xkey, path).res.ok
             THEN ret \in {Ok, Err(<<"BackendError">>)}
             ELSE ret = derive_public_path(xkey, path).res

\* C27: as the claim states it, the operations of a key without a backend
\* return an error, after set_backend the same operations succeed, and
\* set_backend changes nothing else about the key.
C27_BackendNeeded ==
    /\ [](FailsWithoutBackend)
    /\ []((pc = "done" /\ op \in BackendOps /\ xkey.backend) => ret.ok)
    /\ [][SetBackendOnly]_vars

\* C27: the operations of a key without a backend return an error; after
\* set_backend none fails for the lack of a backend: derive_pubkey,
\* sign_digest and sign_digest_recoverable succeed, verify_digest returns
\* the verdict of the backend, and a descendant_* shortcut returns the error
\* of its path derivation or the result of the operation on the descendant;
\* set_backend changes nothing else about the key.
C27_BackendNeededOnly ==
    /\ [](FailsWithoutBackend)
    /\ []((pc = "done" /\ op \in BackendOps /\ xkey.backend) => WithBackend)
    /\ [][SetBackendOnly]_vars

\* a key made without a backend and given one has signed a digest for its
\* descendant at a path of two indices
C27_Witness ==
    /\ pc = "done" /\ op = "descendant_sign_digest"
    /\ xkey.backend
    /\ Len(path) = 2
    /\ ret.ok
    /\ ret.val.signer = derive_private_path(xkey, path).res.val.privkey

---------------------------------------------------------------------------
\* the payloads of the commands, one after the other
Payloads(pkts) == Flatten([i \in 1..Len(pkts) |-> pkts[i].data])

\* C28: packetize_vout returns at least one command, each with a payload of
\* 50 bytes at most; the payloads, in order, are the compact-size number of
\* outputs followed by the serialized outputs; the last command, and no
\* other, has p1 = 0x80, the others p1 = 0x00.  packetize_input_for_signing
\* cuts its buffer into commands of 50 bytes at most, in order.
C28_Packets ==
    /\ (pc = "done" /\ op = "packetize_vout") =>
          /\ packets # <<>>
          /\ \A i \in 1..Len(packets) : Len(packets[i].data) <= 50
          /\ Payloads(packets) =
                write_compact_int(Len(args.outputs))
                    \o Flatten([i \in 1..Len(args.outputs) |->
                                    SerTxOut(args.outputs[i])])
          /\ \A i \in 1..Len(packets) :
                packets[i].p1 = IF i = Len(packets) THEN 128 ELSE 0
    /\ (pc = "done" /\ op = "packetize_input_for_signing" /\ ret = "Ok") =>
          /\ \A i \in 1..Len(packets) : Len(packets[i].data) <= 50
          /\ Payloads(packets) = buffer
          /\ buffer = <<2>> \o SerOutpoint(args.txin.outpoint)
                          \o write_u64_le(args.utxo.value)
                          \o args.utxo.signing_script.data

\* the outputs of a transaction took three commands, the first two full
C28_Witness ==
    /\ pc = "done" /\ op = "packetize_vout"
    /\ Len(packets) = 3
    /\ Len(packets[1].data) = 50 /\ Len(packets[2].data) = 50
    /\ packets[1].p1 = 0 /\ packets[2].p1 = 0 /\ packets[3].p1 = 128

---------------------------------------------------------------------------
\* The witness transaction made of nothing but the version and the locktime
\* of the transaction of the call, the outpoint and the sequence of its
\* input at the index of the call, and its output at that index.
OnlySigned ==
    WitnessTx_new(Original.version,
                  <<[outpoint |-> Original.vin[args.index + 1].outpoint,
                     script_sig |-> ScriptNull,
                     sequence |-> Original.vin[args.index + 1].sequence]>>,
                  <<Original.vout[args.index + 1]>>,
                  Original.locktime)

\* the arguments of the call with the index 0
AtIndexZero == [args EXCEPT !.index = 0]

\* C29: the BIP143 SINGLE|ACP preimage for the input at index depends on
\* nothing but the version and the locktime of the transaction, the
\* outpoint and the sequence of that input, the output at index, the prevout
\* script and the prevout value: it is, byte for byte, the preimage for the
\* only input of the transaction made of these alone, and so is the digest.
C29_SingleAcpCommitsToInputAndOutput ==
    (IsWitnessCall /\ ret = "Ok" /\ args.sighash_flag = SIGHASH_SINGLE_ACP) =>
        /\ write_witness_sighash_preimage(OnlySigned, AtIndexZero).ret = "Ok"
        /\ writer = write_witness_sighash_preimage(OnlySigned, AtIndexZero).out
        /\ digest = Hash256(write_witness_sighash_preimage(OnlySigned, AtIndexZero).out)

\* a SINGLE|ACP preimage for the second input of a transaction with two
\* different inputs, the first one signed, and two different outputs
C29_Witness ==
    /\ IsWitnessCall /\ ret = "Ok"
    /\ args.sighash_flag = SIGHASH_SINGLE_ACP /\ args.index = 1
    /\ Len(Original.vin) = 2 /\ Len(Original.vout) = 2
    /\ Original.vin[1] # Original.vin[2]
    /\ Original.vin[1].script_sig # ScriptNull
    /\ Original.vout[1] # Original.vout[2]
    /\ writer = write_witness_sighash_preimage(OnlySigned, AtIndexZero).out

---------------------------------------------------------------------------
\* the writer of the call has returned one of its own errors
OwnError == ret \in {"NoneUnsupported", "SighashSingleBug"}

\* the outcome of the call made once more, on the transaction as it is now
\* and with the same arguments
Repeated ==
    IF op = "LegacyTx::write_sighash_preimage"
    THEN write_sighash_preimage(tx.legacy_tx, args)
    ELSE IF op = "WitnessTx::legacy_sighash"
    THEN write_legacy_sighash_preimage(tx, args)
    ELSE write_witness_sighash_preimage(tx, args)

\* a step that is a call of a preimage writer
SighashStep == pc = "ready" /\ pc' = "done"

\* C30: when the legacy or the BIP143 preimage writer returns
\* NoneUnsupported or SighashSingleBug it has written no byte; the
\* transaction it is called on is the same after the call, whatever it
\* returns; and the call made once more returns the same and writes the same.
C30_AllOrNothing ==
    /\ []((IsSighashCall /\ OwnError) => writer = <<>>)
    /\ [][SighashStep => tx' = tx]_vars
    /\ []((IsSighashCall /\ pc = "done") =>
             (ret = Repeated.ret /\ writer = Repeated.out))

\* a BIP143 call for SINGLE at an index that an input has and no output
\* has returned SighashSingleBug and written nothing
C30_Witness ==
    /\ IsWitnessCall /\ pc = "done"
    /\ ret = "SighashSingleBug"
    /\ args.index < Len(Original.vin)
    /\ args.index >= Len(Original.vout)
    /\ writer = <<>>
    /\ Repeated.ret = "SighashSingleBug"
===========================================================================
